---- MODULE Spec2Model ----
(***************************************************************************)
(* Playground (sandbox) lifecycle manager of lang-flow:                    *)
(* backend/app/services/playground_service.py, its router                  *)
(* backend/app/routers/playground.py and the instance store of             *)
(* backend/app/services/storage.py.                                        *)
(*                                                                         *)
(* Scheduling.  Request handlers and the provisioning task run on one      *)
(* asyncio event loop: a handler or a task runs without interruption up    *)
(* to its next await, so every action below is one handler, or one         *)
(* segment of _create_container between two awaits.  The reaper is a       *)
(* thread of its own: its pass is a scan followed by one delete_instance   *)
(* per collected id, and the event loop may run between these.             *)
(*                                                                         *)
(* Environment.  The container engine is the state container / daemon /    *)
(* volumes, indexed by the instance id the container is labelled with.     *)
(* Engine and Store calls succeed unless the action has an input that      *)
(* says otherwise (run_fails, save_fails, exec_fails).                     *)
(*                                                                         *)
(* Time is counted in hours (the unit of duration_hours and hours).        *)
(***************************************************************************)
EXTENDS Integers, Sequences, FiniteSets, TLC

\* ---------------------------------------------------------------- bounds
MaxInstances == 2      \* create_instance calls per behaviour (uuid4 ids 1..MaxInstances)
MaxTime      == 2      \* the clock runs 0..MaxTime
MaxPolls     == 2      \* readiness polls that fit in the 180 s timeout
MaxRestarts  == 1      \* process restarts per behaviour
MaxDuration  == 1      \* largest positive duration_hours requested
MaxExtend    == 1      \* largest positive hours of an extend request
PortChainLen == 156    \* creations in a row in the port allocator's chain
MaxSteps     == 2      \* steps of a workflow
MaxExitCode  == 1      \* exit codes 0..MaxExitCode of a command
MaxFrames    == 2      \* frames the client sends in one terminal session
MaxSubs      == 2      \* subscriptions to the brokers
MaxChunks    == 3      \* chunks the sandbox emits on the exec socket
MaxReads     == 2      \* recv calls left behind in executor threads at one time
MaxPublish   == 3      \* publish calls made to the brokers

\* The run id a subscriber follows and one it does not.
Threads == {"handler", "reaper"}     \* a request handler and the reaper thread
StoreIds == {1, 2}                   \* ids of the records of the document
StoreStatuses == {"creating", "running"}
RunIds == {1, 2}
Subs == 1..MaxSubs

\* ------------------------------------------------------ program constants
base_ssh_port    == 2222
base_docker_port == 2376
base_web_port    == 8080
container_attempts == 3     \* range(3) of the terminal's container check
docker_attempts == 5        \* range(5) of the terminal's daemon check
max_checks == 30

default_duration_hours == 4      \* CreateInstanceRequest.duration_hours

Ids == 1..MaxInstances

\* duration_hours: int and hours: int are not validated by the request models;
\* 0 is left out because created_at and expires_at come from two clock reads.
DurationHours == {-1} \cup (1..MaxDuration)
ExtendHours   == {-2} \cup (1..MaxExtend)

VARIABLES
    now,          \* datetime.utcnow(), in hours
    nextId,       \* how many ids uuid4 has handed out
    inst,         \* the PlaygroundInstance objects, by id (object identity)
    instances,    \* keys of PlaygroundService.instances
    store,        \* playground.json: the records written, by id
    container,    \* engine: state of the container labelled with the id
    daemon,       \* engine: the inner docker daemon of that container answers
    volumes,      \* engine: the two named volumes of the id exist
    prov,         \* position of the _create_container task of the id
    polls,        \* iterations of _wait_for_container_ready done by that task
    reaperQueue,  \* expired_instances still to delete in the current reaper pass
    reaper,       \* the reaper thread, and the ids its failed passes skipped
    resp,         \* last answer: the service's return value and the HTTP status
    restarts,     \* process restarts so far
    reaped,       \* ids the reaper has deleted
    chain         \* the port allocator run on its own (SpecPorts)

\* One workflow run (routers/runs.py, services/workflow_engine.py) and one
\* observer of its event stream.
VARIABLES
    workflow,     \* the steps of the Workflow being run
    rpc,          \* position of the thread _run_in_thread
    step_index,   \* step_index of the loop of run_workflow_sync
    result,       \* the RunResult object
    runs_dir,     \* the run document save_run wrote, if any
    RUNS,         \* _RUNS[run_id], if any
    published,    \* the publish calls made for the run id, in order
    returned,     \* how run_workflow_sync came back to _run_in_thread
    attempted,    \* step indexes whose body was entered, in order
    observer      \* the generator event_stream of one stream_execution request

\* One terminal session (routers/playground.py, playground_terminal_websocket).
VARIABLES
    term          \* the handler, its two tasks, the client and the exec channel

\* The two brokers (services/streaming.py, services/realtime.py).
VARIABLES
    bus           \* subscribers, their queues, the loop's callbacks, the history

\* One command execution (services/command_executor.py, execute_command).
VARIABLES
    cmd           \* the inputs of the last call and what it returned

\* The playground document and the threads that mutate it (services/storage.py).
VARIABLES
    disk          \* playground.json as a list, and each thread's call in progress

\* The output side of one terminal session (routers/playground.py,
\* read_from_container).
VARIABLES
    pipe          \* the exec socket's bytes, the recv calls, the frames sent

sysVars == <<now, nextId, inst, instances, store, container, daemon, volumes,
             prov, polls, reaperQueue, reaper, resp, restarts, reaped>>
runVars == <<workflow, rpc, step_index, result, runs_dir, RUNS, published,
             returned, attempted, observer>>
ext == <<runVars, term, bus, cmd, disk, pipe>>
vars == <<sysVars, chain, ext>>

\* ------------------------------------------------------------- instances
\* PlaygroundInstance; container_id is a string: <<>> is "", <<i>> the engine's id.
Instance(st, cid, ports, c, e) ==
    [status |-> st, container_id |-> cid,
     ssh_port |-> ports.ssh, docker_port |-> ports.docker, web_port |-> ports.web,
     created_at |-> c, expires_at |-> e, last_activity |-> c]

InstPorts(r) == {r.ssh_port, r.docker_port, r.web_port}

\* ------------------------------------------------------------ the Store
\* store is the content of playground.json.  status is a Literal of the model
\* class: assignment does not validate it, model_validate on load does.
ValidStatus == {"creating", "running", "stopped", "error", "expired", "installing"}

\* list_playground_instances: one record that fails validation raises inside
\* the try, and the except clause returns the empty list.
list_playground_instances(st) ==
    IF \A j \in DOMAIN st : st[j].status \in ValidStatus THEN st ELSE <<>>

\* save_playground_instances writes the list it is given.
save_playground_instances(list) == list

\* save_playground_instance: upsert by id in the listed records, write.
save_playground_instance(st, i, r) ==
    LET list == list_playground_instances(st) IN
    save_playground_instances([j \in DOMAIN list \cup {i} |-> IF j = i THEN r ELSE list[j]])

delete_playground_instance_keep(st, i) == st

\* delete_playground_instance: writes only when a listed record has the id.
delete_playground_instance(st, i) ==
    LET list == list_playground_instances(st) IN
    IF i \in DOMAIN list
    THEN save_playground_instances([j \in DOMAIN list \ {i} |-> list[j]])
    ELSE st

\* get_playground_instance, as a sequence of at most one record.
get_playground_instance(st, i) ==
    LET list == list_playground_instances(st) IN
    IF i \in DOMAIN list THEN <<list[i]>> ELSE <<>>

\* -------------------------------------------------------- port allocation
\* port = base; while port in used_ports: port += 1
\* The loop stops at the first port from the base on that is not in use; it
\* passes at most one port per element of used_ports.
FindPort(base, used) ==
    CHOOSE port \in base..(base + Cardinality(used)) :
        /\ port \notin used
        /\ \A q \in base..(port - 1) : q \in used

AllocatePorts(used) ==
    [ssh    |-> FindPort(base_ssh_port, used),
     docker |-> FindPort(base_docker_port, used),
     web    |-> FindPort(base_web_port, used)]

\* Host ports of the labelled containers: NetworkSettings.Ports of a container
\* that is not running is empty.
EnginePorts == UNION {InstPorts(inst[i]) : i \in {j \in DOMAIN inst : container[j] = "running"}}

used_ports_engine_only == EnginePorts

used_ports == UNION {InstPorts(inst[i]) : i \in instances} \cup EnginePorts


\* --------------------------------------------------- status reconciliation
\* _check_container_status: the raw engine status when the container is not running.
check_container_status_no_guard(r) ==
    IF r.container_id = <<>> THEN "running"
    ELSE LET c == container[Head(r.container_id)] IN
         IF c = "none" THEN "error"
         ELSE IF c # "running" THEN c
         ELSE IF daemon[Head(r.container_id)] THEN "running" ELSE "installing"

check_container_status(r) ==
    IF r.container_id = <<>> THEN "error"
    ELSE LET c == container[Head(r.container_id)] IN
         IF c = "none" THEN "error"                \* containers.get raises
         ELSE IF c # "running" THEN c              \* return container.status
         ELSE IF daemon[Head(r.container_id)] THEN "running" ELSE "installing"

\* _update_instance_status: the status it leaves in the instance.
update_instance_status(r) ==
    IF r.container_id = <<>>
    THEN IF r.status \notin {"creating", "error"} THEN "error" ELSE r.status
    ELSE LET c == container[Head(r.container_id)] IN
         IF c = "none" THEN "error"                \* docker.errors.NotFound
         ELSE IF c = "running"
              THEN IF r.status = "installing"
                   THEN IF daemon[Head(r.container_id)] THEN "running" ELSE "installing"
                   ELSE "running"
         ELSE IF c = "exited" THEN "stopped"
         ELSE "error"

\* Both reconcilers save the instance exactly when the status changed.
WithStatus(r, st) == [r EXCEPT !.status = st]

get_instance(i) == IF i \in instances THEN <<inst[i]>> ELSE <<>>

\* ------------------------------------------------------------- answers
Resp(r, c) == [ret |-> r, code |-> c]

\* A router body of the form  try: ...; if not ok: raise HTTPException(404)
\* except Exception as e: raise HTTPException(500): the 404 is raised inside
\* the try and HTTPException is an Exception.
http_in_try(c) == IF c = 200 THEN 200 ELSE 500

\* ------------------------------------------------------------------ Init
Init ==
    /\ now = 0
    /\ nextId = 0
    /\ inst = <<>>
    /\ instances = {}
    /\ store = <<>>
    /\ container = [i \in Ids |-> "none"]
    /\ daemon = [i \in Ids |-> FALSE]
    /\ volumes = [i \in Ids |-> FALSE]
    /\ prov = [i \in Ids |-> "none"]
    /\ polls = [i \in Ids |-> 0]
    /\ reaperQueue = {}
    /\ reaper = [state |-> "running", skipped |-> {}]
    /\ resp = Resp("none", 0)
    /\ restarts = 0
    /\ reaped = {}
    /\ chain = [used |-> {}, last |-> [ssh |-> 0, docker |-> 0, web |-> 0], n |-> 0]
    /\ workflow = <<>>
    /\ rpc = "idle"
    /\ step_index = 0
    /\ result = [status |-> "running", logs |-> <<>>, finished_at |-> <<>>]
    /\ runs_dir = <<>>
    /\ RUNS = <<>>
    /\ published = <<>>
    /\ returned = "none"
    /\ attempted = <<>>
    /\ observer = [pc |-> "none", queue |-> <<>>, seen |-> <<>>, at |-> "none"]
    /\ term = [pc |-> "idle", active |-> FALSE, closes |-> 0, reader |-> "none",
               handler |-> "none", client |-> "none", channel |-> "none",
               frames |-> 0, acted |-> FALSE,
               instance |-> "none", attempt |-> 0, container |-> FALSE,
               docker_attempt |-> 0, docker_ready |-> FALSE,
               error |-> "none", closed |-> FALSE]
    /\ bus = [sub |-> <<>>,
              streams |-> [r \in RunIds |-> <<>>],
              subs |-> [r \in RunIds |-> <<>>],
              keys |-> [streams |-> {}, subs |-> {}],
              pub |-> [r \in RunIds |-> [n |-> 0, i |-> 0, live |-> FALSE, since |-> 0]],
              ready |-> <<>>]
    /\ cmd = [fn |-> "none", args |-> <<>>, call |-> <<>>]
    /\ pipe = [n |-> 0, wire |-> <<>>, recvs |-> <<>>, reader |-> "loop", sent |-> <<>>]
    /\ disk = [doc |-> <<>>,
               thr |-> [t \in Threads |->
                           [pc |-> "idle", op |-> "none", arg |-> <<>>, instances |-> <<>>]]]

\* ------------------------------------------------------- create_instance
\* POST /: the whole of create_instance.  save_fails: save_playground_instance
\* raises after the instance was put in the map; the except clause re-raises.
CreateInstance(limit, durations) ==
    \E d \in durations, save_fails \in BOOLEAN :
        /\ nextId < limit
        /\ LET id == nextId + 1
               r  == Instance("creating", <<>>, AllocatePorts(used_ports), now, now + d)
           IN  /\ nextId' = id
               /\ inst' = (id :> r) @@ inst
               /\ instances' = instances \cup {id}
               /\ IF save_fails
                  THEN /\ resp' = Resp("raised", 500)
                       /\ UNCHANGED <<store, prov>>
                  ELSE /\ store' = save_playground_instance(store, id, r)
                       /\ prov' = [prov EXCEPT ![id] = "scheduled"]
                       /\ resp' = Resp("instance", 200)
        /\ UNCHANGED <<now, container, daemon, volumes, polls, reaperQueue, reaper,
                       restarts, reaped, chain, ext>>

\* ----------------------------------------------------- _create_container
create_container_failed_keep(i) ==
    /\ inst' = [inst EXCEPT ![i].status = "error"]
    /\ store' = save_playground_instance(store, i, inst'[i])
    /\ container' = IF inst[i].container_id # <<>>
                    THEN [container EXCEPT ![i] = "none"] ELSE container
    /\ daemon' = [daemon EXCEPT ![i] = FALSE]
    /\ instances' = instances
    /\ prov' = [prov EXCEPT ![i] = "failed"]

\* The except clause of _create_container (for a failed containers.run the
\* inner except clause does the same first): status error, save, remove the
\* container if there is a container_id, drop the id from the map, re-raise.
create_container_failed(i) ==
    /\ inst' = [inst EXCEPT ![i].status = "error"]
    /\ store' = save_playground_instance(store, i, inst'[i])
    /\ container' = IF inst[i].container_id # <<>>
                    THEN [container EXCEPT ![i] = "none"] ELSE container
    /\ daemon' = [daemon EXCEPT ![i] = FALSE]
    /\ instances' = instances \ {i}
    /\ prov' = [prov EXCEPT ![i] = "failed"]

\* The task up to its first sleep: containers.run, the container_id, the save
\* and the first readiness poll, which finds the inner daemon not yet up.
ProvisionStart(i) ==
    /\ prov[i] = "scheduled"
    /\ \E run_fails \in BOOLEAN :
        IF run_fails
        THEN /\ create_container_failed(i)
             /\ UNCHANGED <<volumes, polls>>
        ELSE /\ container' = [container EXCEPT ![i] = "running"]
             /\ volumes' = [volumes EXCEPT ![i] = TRUE]
             /\ inst' = [inst EXCEPT ![i].container_id = <<i>>]
             /\ store' = save_playground_instance(store, i, inst'[i])
             /\ prov' = [prov EXCEPT ![i] = "waiting"]
             /\ polls' = [polls EXCEPT ![i] = 1]
             /\ UNCHANGED <<daemon, instances>>
    /\ UNCHANGED <<now, nextId, reaperQueue, reaper, resp, restarts, reaped, chain, ext>>

\* One more turn of the loop of _wait_for_container_ready after its sleep.
\* An exception inside the loop body, the RuntimeError for an exited container
\* included, is caught by the loop's own except clause and the loop goes on.
ProvisionPoll(i) ==
    /\ prov[i] = "waiting"
    /\ IF polls[i] >= MaxPolls
       THEN /\ create_container_failed(i)          \* TimeoutError
            /\ UNCHANGED <<volumes, polls>>
       ELSE IF container[i] = "running" /\ daemon[i]
       THEN /\ inst' = [inst EXCEPT ![i].status = "running"]
            /\ store' = save_playground_instance(store, i, inst'[i])
            /\ prov' = [prov EXCEPT ![i] = "done"]
            /\ UNCHANGED <<container, daemon, volumes, instances, polls>>
       ELSE /\ polls' = [polls EXCEPT ![i] = polls[i] + 1]
            /\ UNCHANGED <<inst, store, container, daemon, volumes, instances, prov>>
    /\ UNCHANGED <<now, nextId, reaperQueue, reaper, resp, restarts, reaped, chain, ext>>


\* ------------------------------------------- get / list / refresh / extend
\* Writes status st into instance i and saves it when that is a change.
Reconcile(i, st) ==
    /\ inst' = [inst EXCEPT ![i] = WithStatus(inst[i], st)]
    /\ store' = IF st # inst[i].status
                THEN save_playground_instance(store, i, WithStatus(inst[i], st))
                ELSE store

\* GET /{instance_id}
GetInstance(i) ==
    /\ IF get_instance(i) = <<>>
       THEN /\ resp' = Resp("none", 404)
            /\ UNCHANGED <<inst, store>>
       ELSE /\ Reconcile(i, update_instance_status(inst[i]))
            /\ resp' = Resp("instance", 200)
    /\ UNCHANGED <<now, nextId, instances, container, daemon, volumes, prov, polls,
                   reaperQueue, reaper, restarts, reaped, chain, ext>>

\* GET /: list_instances reconciles every instance of the map, saving each
\* one whose status changed.
ListInstances ==
    /\ inst' = [i \in DOMAIN inst |->
                  IF i \in instances
                  THEN WithStatus(inst[i], update_instance_status(inst[i]))
                  ELSE inst[i]]
    /\ LET changed == {j \in instances : inst'[j].status # inst[j].status}
           list == list_playground_instances(store)
       IN  store' = IF changed = {} THEN store
                    ELSE save_playground_instances(
                            [i \in DOMAIN list \cup changed |->
                                IF i \in changed THEN inst'[i] ELSE list[i]])
    /\ resp' = Resp("list", 200)
    /\ UNCHANGED <<now, nextId, instances, container, daemon, volumes, prov, polls,
                   reaperQueue, reaper, restarts, reaped, chain, ext>>

\* POST /{instance_id}/refresh
RefreshInstanceStatus(i) ==
    /\ IF i \notin instances
       THEN /\ resp' = Resp("false", http_in_try(404))
            /\ UNCHANGED <<inst, store>>
       ELSE /\ Reconcile(i, check_container_status(inst[i]))
            /\ resp' = Resp("true", http_in_try(200))
    /\ UNCHANGED <<now, nextId, instances, container, daemon, volumes, prov, polls,
                   reaperQueue, reaper, restarts, reaped, chain, ext>>

Max2(a, b) == IF a >= b THEN a ELSE b

\* POST /{instance_id}/extend
ExtendInstance(i) ==
    /\ \E hours \in ExtendHours :
        IF i \notin instances
        THEN /\ resp' = Resp("false", http_in_try(404))
             /\ UNCHANGED <<inst, store>>
        ELSE /\ Max2(inst[i].expires_at + hours, now + hours) <= MaxTime + MaxDuration
             /\ inst' = [inst EXCEPT ![i].expires_at =
                            Max2(inst[i].expires_at + hours, now + hours)]
             /\ store' = save_playground_instance(store, i, inst'[i])
             /\ resp' = Resp("true", http_in_try(200))
    /\ UNCHANGED <<now, nextId, instances, container, daemon, volumes, prov, polls,
                   reaperQueue, reaper, restarts, reaped, chain, ext>>

\* ------------------------------------------------------- delete_instance
\* The service's delete_instance on an id of the map: stop and remove the
\* container named by container_id (containers.get("") raises and is logged),
\* remove the two volumes, drop the id from the map and from the Store.
delete_instance(i) ==
    /\ container' = IF inst[i].container_id # <<>>
                    THEN [container EXCEPT ![i] = "none"] ELSE container
    /\ daemon' = IF inst[i].container_id # <<>>
                 THEN [daemon EXCEPT ![i] = FALSE] ELSE daemon
    /\ volumes' = IF container'[i] = "none"
                  THEN [volumes EXCEPT ![i] = FALSE] ELSE volumes
    /\ instances' = instances \ {i}
    /\ store' = delete_playground_instance(store, i)

\* DELETE /{instance_id}
DeleteInstance(i) ==
    /\ IF i \notin instances
       THEN /\ resp' = Resp("false", http_in_try(404))
            /\ UNCHANGED <<instances, store, container, daemon, volumes>>
       ELSE /\ delete_instance(i)
            /\ resp' = Resp("true", http_in_try(200))
    /\ UNCHANGED <<now, nextId, inst, prov, polls, reaperQueue, reaper, restarts, reaped, chain, ext>>

\* --------------------------------------------------------- command, stats
\* A call of one of the two ways to run a command in a container.  instance
\* is what self.instances.get returns (<<>> for None), cstate the engine's
\* state of its container ("none": containers.get raises), exec_raises an
\* exec_run call that raises, exit_code the exit code of the command.
\* ret is the value returned, executed whether the command ran.
Called(ret, executed) == [ret |-> ret, executed |-> executed]

\* execute_command: None for an unknown id and for every exception
\* (containers.get on an empty or unknown id, exec_run on a container that
\* is not running, exec_run raising); otherwise the decoded output.
execute_command(instance, cstate, exec_raises, exit_code) ==
    IF instance = <<>> THEN Called("none", FALSE)
    ELSE IF instance[1].container_id = <<>> \/ cstate # "running" \/ exec_raises
         THEN Called("none", FALSE)
    ELSE Called("output", TRUE)

\* run_command_in_playground: the checks in the order of the code, each
\* with its own message; the output gets the marker when exit_code is not 0.
run_command_in_playground_any_status(id_given, command_empty, instance, cstate, exec_raises, exit_code) ==
    IF ~id_given THEN Called("Error: Playground instance ID is required", FALSE)
    ELSE IF command_empty THEN Called("Error: Command cannot be empty", FALSE)
    ELSE IF instance = <<>> THEN Called("Error: Playground instance not found", FALSE)
    ELSE IF instance[1].container_id = <<>>
         THEN Called("Error: Playground instance has no container ID", FALSE)
    ELSE IF cstate = "none" THEN Called("Error: Could not access container", FALSE)
    ELSE IF cstate # "running" THEN Called("Error: Container is not running", FALSE)
    ELSE IF exec_raises THEN Called("Error executing command in container", FALSE)
    ELSE Called(IF exit_code # 0 THEN "output[exit_code]" ELSE "output", TRUE)

run_command_in_playground(id_given, command_empty, instance, cstate, exec_raises, exit_code) ==
    IF ~id_given THEN Called("Error: Playground instance ID is required", FALSE)
    ELSE IF command_empty THEN Called("Error: Command cannot be empty", FALSE)
    ELSE IF instance = <<>> THEN Called("Error: Playground instance not found", FALSE)
    ELSE IF instance[1].status # "running"
         THEN Called("Error: Playground instance is not running", FALSE)
    ELSE IF instance[1].container_id = <<>>
         THEN Called("Error: Playground instance has no container ID", FALSE)
    ELSE IF cstate = "none" THEN Called("Error: Could not access container", FALSE)
    ELSE IF cstate # "running" THEN Called("Error: Container is not running", FALSE)
    ELSE IF exec_raises THEN Called("Error executing command in container", FALSE)
    ELSE Called(IF exit_code # 0 THEN "output[exit_code]" ELSE "output", TRUE)

\* POST /{instance_id}/command: the router answers None with a 404 raised
\* inside its try block.  The exit code of the command has no part in the
\* answer (execute_command drops it), so the handler is given one that
\* fails.
ExecuteCommand(i) ==
    /\ \E exec_fails \in BOOLEAN :
        LET call == execute_command(get_instance(i), IF i \in instances THEN container[i] ELSE "none",
                                    exec_fails, MaxExitCode)
        IN  IF call.executed
            THEN /\ inst' = [inst EXCEPT ![i].last_activity = now]
                 /\ resp' = Resp(call.ret, http_in_try(200))
            ELSE /\ resp' = Resp("none", http_in_try(404))
                 /\ UNCHANGED inst
    /\ UNCHANGED <<now, nextId, instances, store, container, daemon, volumes,
                   prov, polls, reaperQueue, reaper, restarts, reaped, chain, ext>>

\* GET /{instance_id}/stats: ValueError for an unknown id has its own except
\* clause; every engine failure ends in the all-zero record.
GetInstanceStats(i) ==
    /\ resp' = IF get_instance(i) = <<>> THEN Resp("raised", 404) ELSE Resp("stats", 200)
    /\ UNCHANGED <<now, nextId, inst, instances, store, container, daemon, volumes,
                   prov, polls, reaperQueue, reaper, restarts, reaped, chain, ext>>


\* ------------------------------------------- cleanup_orphaned_containers
orphaned_all(known) == {i \in Ids : container[i] # "none"}

\* The labelled containers whose langflow.playground.id is not a known id.
orphaned(known) == {i \in Ids : container[i] # "none" /\ i \notin known}

\* stop, remove, and remove the two volumes, for every orphan.
cleanup_orphaned_containers(known) ==
    /\ container' = [i \in Ids |-> IF i \in orphaned(known) THEN "none" ELSE container[i]]
    /\ daemon' = [i \in Ids |-> IF i \in orphaned(known) THEN FALSE ELSE daemon[i]]
    /\ volumes' = [i \in Ids |-> IF i \in orphaned(known) THEN FALSE ELSE volumes[i]]

\* POST /cleanup
CleanupOrphans ==
    /\ cleanup_orphaned_containers(instances)
    /\ resp' = Resp("none", 200)
    /\ UNCHANGED <<now, nextId, inst, instances, store, prov, polls, reaperQueue, reaper,
                   restarts, reaped, chain, ext>>

\* ---------------------------------------------- _cleanup_expired_instances
Expired(r) == now > r.expires_at

\* The start of a pass: the list expired_instances.
ReaperScan ==
    /\ reaper.state = "running"
    /\ reaperQueue = {}
    /\ {i \in instances : Expired(inst[i])} # {}
    /\ reaperQueue' = {i \in instances : Expired(inst[i])}
    /\ UNCHANGED <<reaper, now, nextId, inst, instances, store, container, daemon, volumes,
                   prov, polls, resp, restarts, reaped, chain, ext>>

\* asyncio.run(self.delete_instance(instance_id)) for one id of the list.
ReaperDelete(i) ==
    /\ reaper.state = "running"
    /\ i \in reaperQueue
    /\ reaperQueue' = reaperQueue \ {i}
    /\ IF i \in instances
       THEN /\ delete_instance(i)
            /\ reaped' = reaped \cup {i}
       ELSE UNCHANGED <<instances, store, container, daemon, volumes, reaped>>
    /\ UNCHANGED <<now, nextId, inst, prov, polls, reaper, resp, restarts, chain, ext>>

\* What becomes of the thread when a pass raises: the except clause of the
\* loop logs, sleeps, and the while loop goes on.
after_exception_stop(state) == "terminated"

after_exception(state) == state

\* An exception ends a pass before its end: in the scan (the map changes
\* size under the list comprehension while a request handler adds or
\* removes an instance) or in one of the deletes.  The expired ids the pass
\* had not deleted yet are skipped.
ReaperFails ==
    /\ reaper.state = "running"
    /\ LET left == IF reaperQueue = {} THEN {i \in instances : Expired(inst[i])}
                   ELSE reaperQueue \cap instances
       IN  /\ left # {}
           /\ reaper' = [state |-> after_exception(reaper.state),
                         skipped |-> reaper.skipped \cup left]
    /\ reaperQueue' = {}
    /\ UNCHANGED <<now, nextId, inst, instances, store, container, daemon, volumes,
                   prov, polls, resp, restarts, reaped, chain, ext>>

\* ------------------------------------------------------------ environment
ContainerExits(i) ==
    /\ container[i] = "running"
    /\ container' = [container EXCEPT ![i] = "exited"]
    /\ daemon' = [daemon EXCEPT ![i] = FALSE]
    /\ UNCHANGED <<now, nextId, inst, instances, store, volumes, prov, polls,
                   reaperQueue, reaper, resp, restarts, reaped, chain, ext>>

DaemonUp(i) ==
    /\ container[i] = "running"
    /\ ~daemon[i]
    /\ daemon' = [daemon EXCEPT ![i] = TRUE]
    /\ UNCHANGED <<now, nextId, inst, instances, store, container, volumes, prov,
                   polls, reaperQueue, reaper, resp, restarts, reaped, chain, ext>>

\* An hour passes.  Provisioning takes minutes (readiness times out after
\* 180 s): a task in flight sees at most one change of the hour.  The clock
\* is read only where an instance exists (create, extend, the reaper, load),
\* so hours are counted from the first create_instance.
Tick ==
    /\ now < MaxTime
    /\ nextId > 0
    /\ \A i \in Ids : prov[i] \in {"scheduled", "waiting"} => inst[i].created_at = now
    /\ now' = now + 1
    /\ UNCHANGED <<nextId, inst, instances, store, container, daemon, volumes, prov,
                   polls, reaperQueue, reaper, resp, restarts, reaped, chain, ext>>

\* ------------------------------------------------------ installing watch
\* What a probe of _check_if_installing finds: the container not running,
\* the inner daemon answering, or not (a container that is gone raises and
\* counts as one more attempt).
probe(r) ==
    LET i == Head(r.container_id) IN
    IF container[i] = "exited" THEN "stopped"
    ELSE IF container[i] = "running" /\ daemon[i] THEN "ready"
    ELSE "not_ready"

\* _check_if_installing from check_count on, for an engine that keeps
\* answering the same: the status it leaves and whether it saved it.
RECURSIVE check_if_installing(_, _, _)
check_if_installing(status, check_count, answer) ==
    IF check_count < max_checks /\ status = "installing"
    THEN IF answer = "stopped" THEN [status |-> "error", saved |-> FALSE]
         ELSE IF answer = "ready" THEN [status |-> "running", saved |-> TRUE]
         ELSE check_if_installing(status, check_count + 1, answer)
    ELSE IF check_count >= max_checks THEN [status |-> "error", saved |-> TRUE]
    ELSE [status |-> status, saved |-> FALSE]

\* The load of one record: the status of _check_container_status, and for
\* the status running the task _check_if_installing.  The task is the
\* first thing the event loop runs, before any request (without a running
\* loop create_task raises and there is no task at all).
load_instance(r) ==
    LET container_status == check_container_status(r) IN
    IF container_status = "running"
    THEN check_if_installing(container_status, 0, probe(r))
    ELSE [status |-> container_status, saved |-> FALSE]

\* ---------------------------------------------------------------- restart
\* The process stops and PlaygroundService() is constructed again:
\* _load_existing_instances (skip expired records, status from
\* _check_container_status, not saved), _cleanup_expired_from_storage,
\* cleanup_orphaned_containers.  Tasks of the old process are gone.
Restart ==
    /\ restarts < MaxRestarts
    /\ restarts' = restarts + 1
    /\ LET saved  == list_playground_instances(store)
           loaded == {i \in DOMAIN saved : ~Expired(saved[i])}
       IN
        /\ instances' = loaded
        /\ inst' = [i \in DOMAIN inst |->
                      IF i \in loaded
                      THEN WithStatus(saved[i], load_instance(saved[i]).status)
                      ELSE inst[i]]
        /\ store' = save_playground_instances(
                        [i \in loaded |-> IF load_instance(saved[i]).saved
                                          THEN WithStatus(saved[i], load_instance(saved[i]).status)
                                          ELSE saved[i]])
        /\ cleanup_orphaned_containers(loaded)
    /\ prov' = [i \in Ids |-> "none"]
    /\ polls' = [i \in Ids |-> 0]
    /\ reaperQueue' = {}
    /\ reaper' = [reaper EXCEPT !.state = "running"]
    /\ resp' = Resp("none", 0)
    /\ UNCHANGED <<now, nextId, reaped, chain, ext>>

\* --------------------------------------------------------- specification
\* Spec follows one instance through its whole life, with every handler, the
\* reaper, the clock and a restart.  A handler touches only the instance it
\* names (list_instances, the orphan cleanup and the restart treat each
\* instance on its own), so the other instances are left out here and are the
\* subject of SpecFleet.  Requests may name any id of Ids: the ids never
\* created are the unknown ids.
Next ==
    \/ CreateInstance(1, DurationHours)
    \/ \E i \in Ids : ProvisionStart(i)
    \/ \E i \in Ids : ProvisionPoll(i)
    \/ \E i \in Ids : GetInstance(i)
    \/ ListInstances
    \/ \E i \in Ids : RefreshInstanceStatus(i)
    \/ \E i \in Ids : ExtendInstance(i)
    \/ \E i \in Ids : DeleteInstance(i)
    \/ \E i \in Ids : ExecuteCommand(i)
    \/ \E i \in Ids : GetInstanceStats(i)
    \/ CleanupOrphans
    \/ ReaperScan
    \/ \E i \in Ids : ReaperDelete(i)
    \/ \E i \in Ids : ContainerExits(i)
    \/ \E i \in Ids : DaemonUp(i)
    \/ Tick
    \/ Restart

Spec == Init /\ [][Next]_vars

\* SpecFleet: up to MaxInstances instances at once within one life of the
\* process, with the handlers that change the map, the engine's containers
\* or the ports in use: creation (with the default duration), provisioning,
\* deletion, the orphan cleanup, and the engine's own moves.  The clock
\* stands still, so the reaper has nothing to do.
FleetNext ==
    \/ CreateInstance(MaxInstances, {default_duration_hours})
    \/ \E i \in Ids : ProvisionStart(i)
    \/ \E i \in Ids : ProvisionPoll(i)
    \/ \E i \in Ids : DeleteInstance(i)
    \/ CleanupOrphans
    \/ \E i \in Ids : ContainerExits(i)
    \/ \E i \in Ids : DaemonUp(i)

SpecFleet == Init /\ [][FleetNext]_vars

\* SpecBackground: what the service does on its own, with no request but
\* the ones that start it off: the provisioning task, the load at start-up
\* with its installing watch, and the reaper thread with passes that fail.
\* The only request is create; the inner daemon comes up and the clock moves.
BackgroundNext ==
    \/ CreateInstance(MaxInstances, DurationHours)
    \/ \E i \in Ids : ProvisionStart(i)
    \/ \E i \in Ids : ProvisionPoll(i)
    \/ ReaperScan
    \/ \E i \in Ids : ReaperDelete(i)
    \/ ReaperFails
    \/ \E i \in Ids : DaemonUp(i)
    \/ Tick
    \/ Restart

\* The event loop runs the provisioning task and the reaper thread runs its
\* loop: their steps are taken when they stay possible.  A delete of the
\* reaper that is possible again and again goes through in the end:
\* passes do not fail for ever.  Nothing obliges a client to send a
\* request, the engine to move, or the service to restart.
SpecBackground ==
    /\ Init /\ [][BackgroundNext]_vars
    /\ \A i \in Ids : WF_vars(ProvisionStart(i)) /\ WF_vars(ProvisionPoll(i))
    /\ WF_vars(ReaperScan)
    /\ \A i \in Ids : SF_vars(ReaperDelete(i))

\* ------------------------------------------ the port allocator on its own
\* create_instance called PortChainLen times in a row with nothing deleted:
\* used_ports is the ports of the instances made so far.
ChainCreate ==
    /\ chain.n < PortChainLen
    /\ LET p == AllocatePorts(chain.used) IN
        chain' = [used |-> chain.used \cup {p.ssh, p.docker, p.web},
                  last |-> p, n |-> chain.n + 1]
    /\ UNCHANGED <<sysVars, ext>>

PortsNext == ChainCreate

SpecPorts == Init /\ [][PortsNext]_vars


\* ========================================================= workflow runs
\* A run is started by POST /runs/start/{workflow_id}; _run_in_thread runs it
\* in a thread of its own, which has no running event loop: every publish of
\* run_workflow_sync takes the asyncio.run branch and is over when the call
\* returns.  The observer runs on the server's event loop, so its steps and
\* the thread's steps interleave.  save_run succeeds; on_log only logs.

\* PentestStep: type is a Literal of the model; kind says what running the
\* step does: "missing" is the required field (prompt, command,
\* report_config) left empty, "nonzero" a command that exits with a code
\* other than 0, "raises" an AI call that raises.
StepKinds ==
    {[type |-> "ai", kind |-> x] : x \in {"ok", "raises", "missing"}} \cup
    {[type |-> "command", kind |-> x] : x \in {"ok", "nonzero", "missing"}} \cup
    {[type |-> "report", kind |-> x] : x \in {"ok", "missing"}}

RECURSIVE SeqsUpTo(_, _)
SeqsUpTo(S, n) ==
    IF n = 0 THEN {<<>>}
    ELSE LET shorter == SeqsUpTo(S, n - 1) IN
         shorter \cup {Append(w, x) : w \in {v \in shorter : Len(v) = n - 1}, x \in S}

Workflows == SeqsUpTo(StepKinds, MaxSteps)

\* StreamEvent: type, the step it is about (0: the run), the status it carries.
StreamEvent(type, step, status) == [type |-> type, step |-> step, status |-> status]

\* StepLog; output and error are None (<<>>) or one string.
StepLog(step, status) == [step |-> step, status |-> status, output |-> <<>>, error |-> <<>>]

\* run_command on the host: stdout, plus the marker when returncode is not 0.
run_command(returncode) ==
    IF returncode # 0 THEN "output[exit_code]" ELSE "output"

\* The body of one step: <<"output", text>> or <<"raised", message>>.
run_step(step) ==
    IF step.kind = "missing" THEN <<"raised", "AssertionError">>
    ELSE IF step.type = "ai"
         THEN IF step.kind = "raises" THEN <<"raised", "RuntimeError">>
              ELSE <<"output", "completion">>
    ELSE IF step.type = "command"
         THEN <<"output", run_command(IF step.kind = "nonzero" THEN 1 ELSE 0)>>
    ELSE <<"output", "sent">>

\* ExecutionStreamManager.publish: the event is put on the queue of every
\* subscriber of the run id; published keeps the calls in order.
put_first(queue, event) == <<event>> \o queue

put(queue, event) == Append(queue, event)

publish(event) ==
    /\ published' = put(published, event)
    /\ observer' = IF observer.pc = "live"
                   THEN [observer EXCEPT !.queue = put(@, event)]
                   ELSE observer

\* save_run: the document is the result as it is at the call.
save_run(r) == <<r>>

\* POST /runs/start/{workflow_id}: the thread is started.
StartRun ==
    /\ rpc = "idle"
    /\ \E wf \in Workflows : workflow' = wf
    /\ rpc' = "thread"
    /\ UNCHANGED <<step_index, result, runs_dir, RUNS, published, returned,
                   attempted, observer>>
    /\ UNCHANGED <<sysVars, chain, term, bus, cmd, disk, pipe>>

\* StepLog.step_type is a Literal of the model class.
StepTypes == {"ai", "command", "report"}

\* The except clause of _run_in_thread: a result in status error with one
\* StepLog of step_type "error" is built, cached, saved and announced.  The
\* model class rejects the StepLog, and the inner except clause returns a
\* bare result: nothing is cached, saved or published.
thread_failed(step_type) ==
    IF step_type \in StepTypes
    THEN LET failed_result == [status |-> "error", logs |-> <<StepLog(0, "error")>>,
                                   finished_at |-> <<"utcnow">>]
         IN  /\ RUNS' = <<failed_result>>
             /\ runs_dir' = save_run(failed_result)
             /\ publish(StreamEvent("error", 0, "error"))
    ELSE UNCHANGED <<RUNS, runs_dir, published, observer>>

\* _run_in_thread up to the call of run_workflow_sync.  When get_workflow no
\* longer finds the workflow, RuntimeError is raised into the except clause.
ThreadBegin ==
    /\ rpc = "thread"
    /\ \E found \in BOOLEAN :
        IF found
        THEN /\ publish(StreamEvent("run_started", 0, "running"))
             /\ rpc' = IF Len(workflow) = 0 THEN "finish" ELSE "progress"
             /\ step_index' = IF Len(workflow) = 0 THEN 0 ELSE 1
             /\ UNCHANGED <<runs_dir, RUNS>>
        ELSE /\ thread_failed("error")
             /\ rpc' = "failed"
             /\ UNCHANGED step_index
    /\ UNCHANGED <<workflow, result, returned, attempted>>
    /\ UNCHANGED <<sysVars, chain, term, bus, cmd, disk, pipe>>

\* Top of the loop body: the step_progress event.
StepProgress ==
    /\ rpc = "progress"
    /\ publish(StreamEvent("step_progress", step_index, "running"))
    /\ rpc' = "log"
    /\ UNCHANGED <<workflow, step_index, result, runs_dir, RUNS, returned, attempted>>
    /\ UNCHANGED <<sysVars, chain, term, bus, cmd, disk, pipe>>

\* The StepLog is appended in status running and published.
StepStarted ==
    /\ rpc = "log"
    /\ result' = [result EXCEPT !.logs = Append(@, StepLog(step_index, "running"))]
    /\ publish(StreamEvent("log", step_index, "running"))
    /\ rpc' = "body"
    /\ UNCHANGED <<workflow, step_index, runs_dir, RUNS, returned, attempted>>
    /\ UNCHANGED <<sysVars, chain, term, bus, cmd, disk, pipe>>

\* What the except clause of the step does to the result (finished_at is
\* set on the log, which the model does not carry, not on the result).
step_failed_keep_running(r, k, message) ==
    [r EXCEPT !.logs[k].status = "error", !.logs[k].error = <<message>>]

step_failed(r, k, message) ==
    [r EXCEPT !.logs[k].status = "error", !.logs[k].error = <<message>>,
              !.status = "error"]

\* The try block of the step and, when it raises, the except clause: the
\* error log is published, the result saved, and the return is pending
\* behind the finally clause.
StepBody ==
    /\ rpc = "body"
    /\ attempted' = Append(attempted, step_index)
    /\ LET out == run_step(workflow[step_index])
           k   == Len(result.logs)
       IN  IF out[1] = "output"
           THEN /\ result' = [result EXCEPT !.logs[k].output = <<out[2]>>,
                                            !.logs[k].status = "success"]
                /\ rpc' = "finally"
                /\ UNCHANGED <<runs_dir, published, observer>>
           ELSE /\ result' = step_failed(result, k, out[2])
                /\ publish(StreamEvent("log", step_index, "error"))
                /\ runs_dir' = save_run(result')
                /\ rpc' = "finally_return"
    /\ UNCHANGED <<workflow, step_index, RUNS, returned>>
    /\ UNCHANGED <<sysVars, chain, term, bus, cmd, disk, pipe>>

\* Where the loop goes after the finally clause of a step that did not raise.
after_step(k, total) == IF k < total THEN "progress" ELSE "finish"

\* The finally clause: the log is published once more; then the next step,
\* the end of the loop, or the pending return.
StepFinally ==
    /\ rpc \in {"finally", "finally_return"}
    /\ publish(StreamEvent("log", step_index, result.logs[Len(result.logs)].status))
    /\ IF rpc = "finally_return"
       THEN /\ returned' = "result"
            /\ rpc' = "returned"
            /\ UNCHANGED step_index
       ELSE /\ rpc' = after_step(step_index, Len(workflow))
            /\ step_index' = IF rpc' = "progress" THEN step_index + 1 ELSE step_index
            /\ UNCHANGED returned
    /\ UNCHANGED <<workflow, result, runs_dir, RUNS, attempted>>
    /\ UNCHANGED <<sysVars, chain, term, bus, cmd, disk, pipe>>

\* After the loop: status success, finished_at, save_run, return.
RunFinish ==
    /\ rpc = "finish"
    /\ result' = [result EXCEPT !.status = "success", !.finished_at = <<"utcnow">>]
    /\ runs_dir' = save_run(result')
    /\ returned' = "result"
    /\ rpc' = "returned"
    /\ UNCHANGED <<workflow, step_index, RUNS, published, attempted, observer>>
    /\ UNCHANGED <<sysVars, chain, term, bus, cmd, disk, pipe>>

\* _run_in_thread after the call: the result goes into _RUNS.
CacheResult ==
    /\ rpc = "returned"
    /\ RUNS' = <<result>>
    /\ rpc' = "cached"
    /\ UNCHANGED <<workflow, step_index, result, runs_dir, published, returned,
                   attempted, observer>>
    /\ UNCHANGED <<sysVars, chain, term, bus, cmd, disk, pipe>>

\* ... and run_finished is published.
PublishRunFinished ==
    /\ rpc = "cached"
    /\ publish(StreamEvent("run_finished", 0, result.status))
    /\ rpc' = "done"
    /\ UNCHANGED <<workflow, step_index, result, runs_dir, RUNS, returned, attempted>>
    /\ UNCHANGED <<sysVars, chain, term, bus, cmd, disk, pipe>>

\* ---------------------------------------------- GET /runs/stream/{run_id}
\* The logs of a RunResult as stream_execution replays them.
replay_logs(r) ==
    [j \in 1..Len(r.logs) |-> StreamEvent("log", r.logs[j].step, r.logs[j].status)]

\* event_stream up to the subscription: what _RUNS holds for the run id is
\* replayed (the logs, and run_finished when the run is over).
replay(runs) ==
    IF runs = <<>> THEN <<>>
    ELSE IF runs[1].status \in {"success", "error"}
         THEN Append(replay_logs(runs[1]), StreamEvent("run_finished", 0, runs[1].status))
         ELSE replay_logs(runs[1])

\* The request arrives (the run id is known once the run was started).
Connect ==
    /\ rpc # "idle"
    /\ observer.pc = "none"
    /\ observer' = [observer EXCEPT !.pc = "replayed", !.seen = replay(RUNS), !.at = rpc]
    /\ UNCHANGED <<workflow, rpc, step_index, result, runs_dir, RUNS, published,
                   returned, attempted>>
    /\ UNCHANGED <<sysVars, chain, term, bus, cmd, disk, pipe>>

\* stream_manager.subscribe: a new, empty queue.
Subscribe ==
    /\ observer.pc = "replayed"
    /\ observer' = [observer EXCEPT !.pc = "live", !.queue = <<>>]
    /\ UNCHANGED <<workflow, rpc, step_index, result, runs_dir, RUNS, published,
                   returned, attempted>>
    /\ UNCHANGED <<sysVars, chain, term, bus, cmd, disk, pipe>>

\* One turn of the loop with an event on the queue: it is sent to the client.
Forward ==
    /\ observer.pc = "live"
    /\ observer.queue # <<>>
    /\ observer' = [observer EXCEPT !.queue = Tail(@), !.seen = Append(@, Head(observer.queue))]
    /\ UNCHANGED <<workflow, rpc, step_index, result, runs_dir, RUNS, published,
                   returned, attempted>>
    /\ UNCHANGED <<sysVars, chain, term, bus, cmd, disk, pipe>>

\* The client went away: the loop breaks and the queue is unsubscribed.
Disconnect ==
    /\ observer.pc = "live"
    /\ observer' = [observer EXCEPT !.pc = "closed"]
    /\ UNCHANGED <<workflow, rpc, step_index, result, runs_dir, RUNS, published,
                   returned, attempted>>
    /\ UNCHANGED <<sysVars, chain, term, bus, cmd, disk, pipe>>

RunNext ==
    \/ StartRun
    \/ ThreadBegin
    \/ StepProgress
    \/ StepStarted
    \/ StepBody
    \/ StepFinally
    \/ RunFinish
    \/ CacheResult
    \/ PublishRunFinished
    \/ Connect
    \/ Subscribe
    \/ Forward
    \/ Disconnect

SpecRun == Init /\ [][RunNext]_vars

\* ====================================================== command execution
\* The two entry points called with every kind of argument and service
\* state.  playground_service always has a client (the module's import
\* raises otherwise), so the "not properly initialized" branch is never
\* taken.  An instance has an empty container_id only in status creating or
\* error.
CommandInstances ==
    {<<>>} \cup
    {<<Instance(st, cid, AllocatePorts({}), 0, default_duration_hours)>> :
        st \in ValidStatus \cup {"exited"}, cid \in {<<1>>}} \cup
    {<<Instance(st, <<>>, AllocatePorts({}), 0, default_duration_hours)>> :
        st \in {"creating", "error"}}

CommandArgs ==
    [id_given : BOOLEAN, command_empty : BOOLEAN, instance : CommandInstances,
     cstate : {"none", "running", "exited"}, exec_raises : BOOLEAN,
     exit_code : 0..MaxExitCode]

\* A workflow command step with a playground instance id (run_command
\* passes the call on), or a direct call.
RunCommandInPlayground ==
    /\ \E a \in CommandArgs :
        cmd' = [fn |-> "run_command_in_playground", args |-> <<a>>,
                call |-> <<run_command_in_playground(a.id_given, a.command_empty,
                              a.instance, a.cstate, a.exec_raises, a.exit_code)>>]
    /\ UNCHANGED <<sysVars, chain, runVars, term, bus, disk, pipe>>

\* PlaygroundService.execute_command.
ExecuteCommandCall ==
    /\ \E a \in CommandArgs :
        /\ a.id_given /\ ~a.command_empty
        /\ cmd' = [fn |-> "execute_command", args |-> <<a>>,
                   call |-> <<execute_command(a.instance, a.cstate, a.exec_raises,
                                              a.exit_code)>>]
    /\ UNCHANGED <<sysVars, chain, runVars, term, bus, disk, pipe>>

\* run_command without a playground instance id: subprocess.run on the host.
RunCommandHost ==
    /\ \E returncode \in 0..MaxExitCode :
        cmd' = [fn |-> "run_command",
                args |-> <<[id_given |-> FALSE, command_empty |-> FALSE, instance |-> <<>>,
                            cstate |-> "none", exec_raises |-> FALSE,
                            exit_code |-> returncode]>>,
                call |-> <<Called(run_command(returncode), TRUE)>>]
    /\ UNCHANGED <<sysVars, chain, runVars, term, bus, disk, pipe>>

CmdNext ==
    \/ RunCommandInPlayground
    \/ ExecuteCommandCall
    \/ RunCommandHost

SpecCmd == Init /\ [][CmdNext]_vars

\* ========================================================= instance stats
\* get_instance_stats as a function of the instance, the clock, the state of
\* the container and the raw snapshot of the engine.  A metric's raw fields
\* are well formed ("ok"), absent ("missing"), of a type the arithmetic
\* raises on ("wrong_type": a string, None), or numbers that are not whole
\* ("fraction": a memory limit or a byte counter such as 4.5).  The figures
\* of a well-formed snapshot are the ones of WellFormed.
WellFormed ==
    [cpu_usage |-> 50, memory_usage |-> 25, memory_limit |-> 4,
     network_rx |-> 7, network_tx |-> 9, containers_count |-> 2]

\* PlaygroundStats with every figure zero.
ZeroStats(uptime) ==
    [cpu_usage |-> 0, memory_usage |-> 0, memory_limit |-> 0, disk_usage |-> 0,
     network_rx |-> 0, network_tx |-> 0, uptime |-> uptime, containers_count |-> 0]

\* The CPU block: the figure is computed when every field is there, and an
\* exception of the arithmetic is caught.
cpu_of(form) == IF form = "ok" THEN WellFormed.cpu_usage ELSE 0

\* The memory block: usage and limit are needed; an exception resets both.
\* A limit that is a number is kept as it is.
memory_of(form) ==
    IF form = "ok"
    THEN [usage |-> WellFormed.memory_usage, limit |-> <<"int", WellFormed.memory_limit>>]
    ELSE IF form = "fraction"
    THEN [usage |-> WellFormed.memory_usage, limit |-> <<"float", WellFormed.memory_limit>>]
    ELSE [usage |-> 0, limit |-> <<"int", 0>>]

\* The network block: the byte counters of the interfaces are added up; an
\* exception resets both sums.
network_of(form) ==
    IF form = "ok"
    THEN [rx |-> <<"int", WellFormed.network_rx>>, tx |-> <<"int", WellFormed.network_tx>>]
    ELSE IF form = "fraction"
    THEN [rx |-> <<"float", WellFormed.network_rx>>, tx |-> <<"int", WellFormed.network_tx>>]
    ELSE [rx |-> <<"int", 0>>, tx |-> <<"int", 0>>]

\* docker ps -q inside the container: the lines of the output are counted.
count_of(form) == IF form = "ok" THEN WellFormed.containers_count ELSE 0

\* PlaygroundStats(...) of the last return: memory_limit, network_rx and
\* network_tx are int fields, and a number with a fractional part is not
\* accepted for them.
accepted(mem, net) == mem.limit[1] = "int" /\ net.rx[1] = "int" /\ net.tx[1] = "int"

get_instance_stats_uncaught(instance, t, cstate, stats_raises, snap) ==
    IF instance = <<>> THEN <<"raised", "not found">>
    ELSE LET uptime == t - instance[1].created_at
             mem == memory_of(snap.memory)
             net == network_of(snap.network)
         IN  IF instance[1].container_id = <<>> THEN <<"stats", ZeroStats(uptime)>>
             ELSE IF cstate = "none" THEN <<"raised", "no such container">>
             ELSE IF cstate # "running" THEN <<"stats", ZeroStats(uptime)>>
             ELSE IF stats_raises THEN <<"stats", ZeroStats(uptime)>>
             ELSE IF ~accepted(mem, net) THEN <<"raised", "validation">>
             ELSE <<"stats", [cpu_usage |-> cpu_of(snap.cpu),
                              memory_usage |-> mem.usage, memory_limit |-> mem.limit[2],
                              disk_usage |-> 0,
                              network_rx |-> net.rx[2], network_tx |-> net.tx[2],
                              uptime |-> uptime,
                              containers_count |-> count_of(snap.count)]>>

\* PlaygroundService.get_instance_stats: ValueError for an unknown id; the
\* all-zero record without a container id, for a container that is not
\* running, when the stats call fails, and for whatever the outer except
\* clause catches (containers.get raising, the last return raising).
get_instance_stats(instance, t, cstate, stats_raises, snap) ==
    IF instance = <<>> THEN <<"raised", "not found">>
    ELSE LET uptime == t - instance[1].created_at
             mem == memory_of(snap.memory)
             net == network_of(snap.network)
         IN  IF instance[1].container_id = <<>> THEN <<"stats", ZeroStats(uptime)>>
             ELSE IF cstate = "none" THEN <<"stats", ZeroStats(uptime)>>
             ELSE IF cstate # "running" THEN <<"stats", ZeroStats(uptime)>>
             ELSE IF stats_raises THEN <<"stats", ZeroStats(uptime)>>
             ELSE IF ~accepted(mem, net) THEN <<"stats", ZeroStats(uptime)>>
             ELSE <<"stats", [cpu_usage |-> cpu_of(snap.cpu),
                              memory_usage |-> mem.usage, memory_limit |-> mem.limit[2],
                              disk_usage |-> 0,
                              network_rx |-> net.rx[2], network_tx |-> net.tx[2],
                              uptime |-> uptime,
                              containers_count |-> count_of(snap.count)]>>

Snapshots ==
    [cpu : {"ok", "missing", "wrong_type"},
     memory : {"ok", "missing", "wrong_type", "fraction"},
     network : {"ok", "missing", "wrong_type", "fraction"},
     count : {"ok", "fails"}]

StatsInstances ==
    {<<>>} \cup
    {<<Instance("running", <<1>>, AllocatePorts({}), c, c + default_duration_hours)>> :
        c \in 0..MaxTime} \cup
    {<<Instance("creating", <<>>, AllocatePorts({}), c, c + default_duration_hours)>> :
        c \in 0..MaxTime}

StatsArgs ==
    [instance : StatsInstances, t : 0..MaxTime, cstate : {"none", "running", "exited"},
     stats_raises : BOOLEAN, snap : Snapshots]

\* The arguments of a call: the clock is not before the instance's
\* creation, and what the call never gets to (the container of an instance
\* without one, the snapshot of a container that is not running or gives
\* none) is left at one value.
StatsCall(a) ==
    /\ a.instance # <<>> => a.instance[1].created_at <= a.t
    /\ (a.instance = <<>> \/ a.instance[1].container_id = <<>>) => a.cstate = "none"
    /\ a.cstate # "running" => ~a.stats_raises
    /\ (a.cstate # "running" \/ a.stats_raises) =>
            a.snap = [cpu |-> "ok", memory |-> "ok", network |-> "ok", count |-> "ok"]

GetInstanceStatsCall ==
    /\ \E a \in StatsArgs :
        /\ StatsCall(a)
        /\ cmd' = [fn |-> "get_instance_stats", args |-> <<a>>,
                   call |-> <<get_instance_stats(a.instance, a.t, a.cstate,
                                                 a.stats_raises, a.snap)>>]
    /\ UNCHANGED <<sysVars, chain, runVars, term, bus, disk, pipe>>

StatsNext == GetInstanceStatsCall

SpecStats == Init /\ [][StatsNext]_vars

\* ======================================================= terminal sessions
\* One connection to /{instance_id}/terminal.  term.pc is the position of
\* the handler playground_terminal_websocket, term.reader and term.handler
\* the tasks read_from_container and handle_websocket_messages, term.client
\* the browser's end of the websocket, term.channel the sandbox's end of the
\* exec socket, term.active whether session_id is a key of active_sessions,
\* term.closes the calls of exec_socket.close().  term.acted records that
\* the client sent a frame or went away.  All of them run on the event
\* loop; a step is a segment between two awaits.

\* The start-up of the handler: term.instance is what get_instance gave
\* (missing, or the instance's status), term.attempt and term.docker_attempt
\* the loop variables of the two checks, term.container that the container
\* check passed, term.docker_ready the flag of the same name, term.error
\* what became of the error frame and term.closed that websocket.close()
\* was called.

\* websocket.accept().
Accept ==
    /\ term.pc = "idle"
    /\ term' = [term EXCEPT !.pc = "instance_check", !.client = "connected"]
    /\ UNCHANGED <<sysVars, chain, runVars, bus, cmd, disk, pipe>>

\* send_text of an error frame and websocket.close(), on a refusal.  Sent
\* to a client that has gone, the send raises or is dropped; when it raises
\* nothing else is done.
refuse(t, send_raises) ==
    [t EXCEPT !.pc = "refused",
              !.error = IF send_raises THEN "raised" ELSE "sent",
              !.closed = ~send_raises]

\* get_instance and the test of the status.
CheckInstance ==
    /\ term.pc = "instance_check"
    /\ \E found \in {"missing"} \cup ValidStatus, send_raises \in BOOLEAN :
        /\ send_raises => (term.client = "disconnected" /\ found # "running")
        /\ term' = IF found = "running"
                   THEN [term EXCEPT !.pc = "container_check", !.instance = found]
                   ELSE refuse([term EXCEPT !.instance = found], send_raises)
    /\ UNCHANGED <<sysVars, chain, runVars, bus, cmd, disk, pipe>>

\* One turn of the loop 'for attempt in range(container_attempts)': the
\* container is fetched, must be running and must run 'echo test'.  A turn
\* that fails sleeps and goes on, and the last one raises.
container_check(attempt, ok) ==
    IF ok THEN "passed"
    ELSE IF attempt = 2 THEN "raised"
    ELSE "again"

ContainerCheck ==
    /\ term.pc = "container_check"
    /\ term.attempt < container_attempts
    /\ \E ok \in BOOLEAN, send_raises \in BOOLEAN :
        LET turn == container_check(term.attempt, ok)
        IN  /\ send_raises => (term.client = "disconnected" /\ turn = "raised")
            /\ term' = IF turn = "passed"
                       THEN [term EXCEPT !.pc = "daemon_check", !.container = TRUE]
                       ELSE IF turn = "raised" THEN refuse(term, send_raises)
                       ELSE [term EXCEPT !.attempt = @ + 1]
    /\ UNCHANGED <<sysVars, chain, runVars, bus, cmd, disk, pipe>>

\* After the loop of the daemon check: without docker_ready the client is
\* refused.
after_docker_loop_unchecked(docker_ready) == "exec"

after_docker_loop(docker_ready) == IF docker_ready THEN "exec" ELSE "refused"

\* One turn of the loop 'for docker_attempt in range(docker_attempts)':
\* 'docker version' in the container; exit code 0 sets docker_ready and
\* leaves the loop.  The turn that ends the loop goes on to what follows it.
DaemonCheck ==
    /\ term.pc = "daemon_check"
    /\ term.docker_attempt < docker_attempts
    /\ \E ok \in BOOLEAN, send_raises \in BOOLEAN :
        LET last == ok \/ term.docker_attempt = docker_attempts - 1
            next == after_docker_loop(ok)
        IN  /\ send_raises => (term.client = "disconnected" /\ last /\ next = "refused")
            /\ term' = IF ~last THEN [term EXCEPT !.docker_attempt = @ + 1]
                       ELSE IF next = "refused"
                       THEN refuse([term EXCEPT !.docker_ready = ok], send_raises)
                       ELSE [term EXCEPT !.docker_ready = ok, !.pc = next]
    /\ UNCHANGED <<sysVars, chain, runVars, bus, cmd, disk, pipe>>

\* exec_create, exec_start and the test write.  When one of them fails the
\* client gets an error and the handler returns: there is no session.
Setup ==
    /\ term.pc = "exec"
    /\ \E ok \in BOOLEAN, send_raises \in BOOLEAN :
        /\ send_raises => (term.client = "disconnected" /\ ~ok)
        /\ term' = IF ok THEN [term EXCEPT !.pc = "register", !.channel = "open"]
                   ELSE refuse(term, send_raises)
    /\ UNCHANGED <<sysVars, chain, runVars, bus, cmd, disk, pipe>>

\* active_sessions[session_id] = {...} and the welcome message, sent outside
\* the try block that owns the cleanup.  Sent to a client that has gone, the
\* send raises (WebSocketDisconnect or RuntimeError, by the server's
\* version) or is dropped; when it raises, the outer except clause is all
\* that runs.
Register ==
    /\ term.pc = "register"
    /\ \E send_raises \in BOOLEAN :
        /\ send_raises => term.client = "disconnected"
        /\ term' = [term EXCEPT !.active = TRUE,
                                !.pc = IF send_raises THEN "failed" ELSE "welcomed"]
    /\ UNCHANGED <<sysVars, chain, runVars, bus, cmd, disk, pipe>>

\* The initial commands (write errors are caught) and the two tasks.
StartTasks ==
    /\ term.pc = "welcomed"
    /\ term' = [term EXCEPT !.pc = "waiting", !.reader = "reading", !.handler = "receiving"]
    /\ UNCHANGED <<sysVars, chain, runVars, bus, cmd, disk, pipe>>

\* read_from_container after one recv: an empty chunk ends the loop.
reader_after_recv_ignore_eof(chunk) == "reading"

reader_after_recv(chunk) == IF chunk = "eof" THEN "done" ELSE "reading"

\* One turn of read_from_container in which the read returns (a timeout of
\* the read changes nothing): data is sent on to the client, and the task
\* returns when the websocket is no longer connected or the send fails; an
\* empty chunk ends the loop.
ReaderStep ==
    /\ term.reader = "reading"
    /\ term.active
    /\ term' = [term EXCEPT !.reader =
                    IF term.channel = "eof" THEN reader_after_recv("eof")
                    ELSE IF term.client = "disconnected" THEN "done"
                    ELSE reader_after_recv("data")]
    /\ term'.reader # term.reader
    /\ UNCHANGED <<sysVars, chain, runVars, bus, cmd, disk, pipe>>

\* The read raises: the loop is left.
ReaderFails ==
    /\ term.reader = "reading"
    /\ term.active
    /\ term' = [term EXCEPT !.reader = "done"]
    /\ UNCHANGED <<sysVars, chain, runVars, bus, cmd, disk, pipe>>

\* The client sends a frame (input, resize, ping) that the handler task
\* takes and processes.
ClientFrame ==
    /\ term.handler = "receiving"
    /\ term.client = "connected"
    /\ term.frames < MaxFrames
    /\ term' = [term EXCEPT !.frames = @ + 1, !.acted = TRUE]
    /\ UNCHANGED <<sysVars, chain, runVars, bus, cmd, disk, pipe>>

\* The client goes away.
ClientDisconnect ==
    /\ term.client = "connected"
    /\ term' = [term EXCEPT !.client = "disconnected", !.acted = TRUE]
    /\ UNCHANGED <<sysVars, chain, runVars, bus, cmd, disk, pipe>>

\* receive_text raises: WebSocketDisconnect when the client has gone, or
\* another exception (error); both leave the loop.
HandlerStops ==
    /\ term.handler = "receiving"
    /\ \E error \in BOOLEAN : error \/ term.client = "disconnected"
    /\ term' = [term EXCEPT !.handler = "done"]
    /\ UNCHANGED <<sysVars, chain, runVars, bus, cmd, disk, pipe>>

\* The sandbox's end of the exec socket closes (the shell exits, the
\* container stops).
ChannelCloses ==
    /\ term.channel = "open"
    /\ term' = [term EXCEPT !.channel = "eof"]
    /\ UNCHANGED <<sysVars, chain, runVars, bus, cmd, disk, pipe>>

cancel(task) == IF task \in {"reading", "receiving"} THEN "cancelled" ELSE task

\* asyncio.wait returns once a task is done; the pending one is cancelled
\* and awaited.
WaitReturns ==
    /\ term.pc = "waiting"
    /\ term.reader = "done" \/ term.handler = "done"
    /\ term' = [term EXCEPT !.pc = "cleanup", !.reader = cancel(@), !.handler = cancel(@)]
    /\ UNCHANGED <<sysVars, chain, runVars, bus, cmd, disk, pipe>>

\* The finally clause: the session leaves active_sessions and the exec
\* socket is closed.
cleanup_session(t) == [t EXCEPT !.active = FALSE, !.closes = @ + 1, !.pc = "ended"]

Cleanup ==
    /\ term.pc = "cleanup"
    /\ term' = cleanup_session(term)
    /\ UNCHANGED <<sysVars, chain, runVars, bus, cmd, disk, pipe>>

TermServer ==
    \/ CheckInstance
    \/ ContainerCheck
    \/ DaemonCheck
    \/ Setup
    \/ Register
    \/ StartTasks
    \/ ReaderStep
    \/ ReaderFails
    \/ HandlerStops
    \/ WaitReturns
    \/ Cleanup

TermNext ==
    \/ Accept
    \/ TermServer
    \/ ClientFrame
    \/ ClientDisconnect
    \/ ChannelCloses

SpecTerm == Init /\ [][TermNext]_vars

\* The event loop runs every task that can run: the handler and the reader
\* get their turn.  Nothing obliges a read or a receive to fail, so
\* ReaderFails and HandlerStops are under no fairness.
SpecTermFair ==
    /\ Init /\ [][TermNext]_vars
    /\ WF_vars(CheckInstance) /\ WF_vars(ContainerCheck) /\ WF_vars(DaemonCheck)
    /\ WF_vars(Setup) /\ WF_vars(Register) /\ WF_vars(StartTasks)
    /\ WF_vars(ReaderStep) /\ WF_vars(WaitReturns) /\ WF_vars(Cleanup)

\* ---------------------------------------------------- the terminal's reader
\* read_from_container of a session that is registered, with a client that
\* stays.  pipe.wire is the chunks the sandbox has written to the exec
\* socket and no recv has taken yet (chunk k is the k-th written, pipe.n
\* were written so far); pipe.recvs is the calls of exec_socket._sock.recv
\* that are blocked in threads of the default executor, oldest first, each
\* "awaited" by the reader or "abandoned"; pipe.reader is the task's
\* position and pipe.sent the output frames it has sent.

\* The shell writes a chunk.
Emit ==
    /\ pipe.n < MaxChunks
    /\ pipe' = [pipe EXCEPT !.n = @ + 1, !.wire = Append(@, pipe.n + 1)]
    /\ UNCHANGED <<sysVars, chain, runVars, term, bus, cmd, disk>>

\* The top of the loop: run_in_executor(None, recv) starts the call in a
\* thread, and wait_for awaits it.
ReaderRecv ==
    /\ pipe.reader = "loop"
    /\ pipe' = [pipe EXCEPT !.recvs = Append(@, "awaited"), !.reader = "waiting"]
    /\ UNCHANGED <<sysVars, chain, runVars, term, bus, cmd, disk>>

\* wait_for times out after 0.1 s: the future is cancelled, TimeoutError is
\* caught and the loop goes on.  The thread cannot be cancelled: it stays
\* blocked in recv.
ReaderTimeout ==
    /\ pipe.reader = "waiting"
    /\ Len(pipe.recvs) <= MaxReads
    /\ pipe' = [pipe EXCEPT !.recvs[Len(pipe.recvs)] = "abandoned", !.reader = "loop"]
    /\ UNCHANGED <<sysVars, chain, runVars, term, bus, cmd, disk>>

\* What the reader does with the chunk a recv call returned: the call it
\* awaits gives it the chunk, which it decodes and sends; the result of a
\* call whose future was cancelled goes nowhere.
forwarded(sent, call, chunk) == IF call = "awaited" THEN Append(sent, chunk) ELSE sent

\* The oldest chunk on the socket is returned by one of the blocked recv
\* calls: which one the kernel wakes is not fixed.
RecvReturns(k) ==
    /\ k \in 1..Len(pipe.recvs)
    /\ pipe.wire # <<>>
    /\ pipe' = [pipe EXCEPT
                !.wire = Tail(@),
                !.recvs = SubSeq(@, 1, k - 1) \o SubSeq(@, k + 1, Len(@)),
                !.sent = forwarded(@, pipe.recvs[k], Head(pipe.wire)),
                !.reader = IF pipe.recvs[k] = "awaited" THEN "loop" ELSE @]
    /\ UNCHANGED <<sysVars, chain, runVars, term, bus, cmd, disk>>

ReaderNext ==
    \/ Emit
    \/ ReaderRecv
    \/ ReaderTimeout
    \/ \E k \in 1..(MaxReads + 1) : RecvReturns(k)

SpecReader == Init /\ [][ReaderNext]_vars

\* ================================================================= brokers
\* ExecutionStreamManager (services/streaming.py) and RunLogBroker
\* (services/realtime.py).  bus.streams is _streams and bus.subs is _subs:
\* for each run id the list of its subscriptions.  bus.sub is the
\* subscriptions made so far: subscription s has its own queue
\* bus.sub[s].queue, and bus.sub[s].got is what its consumer has dequeued.
\* The publish calls of one run id are made one after the other by the
\* run's thread; bus.pub[r].n counts them and numbers the events.  A publish
\* of the stream manager walks the list of the run id while the event loop
\* of the server subscribes and unsubscribes: bus.pub[r].i is its position
\* in the list (0: no publish in progress) and bus.pub[r].live says that the
\* list it walks is still the one held in _streams.  bus.ready is the
\* callbacks RunLogBroker.publish has handed to the subscribers' loop.

Event(r, n) == [run |-> r, seq |-> n]

\* list.remove(x): the list without its first x.
RECURSIVE remove(_, _)
remove(list, x) ==
    IF list = <<>> THEN <<>>
    ELSE IF Head(list) = x THEN Tail(list)
    ELSE <<Head(list)>> \o remove(Tail(list), x)

Members(list) == {list[k] : k \in 1..Len(list)}

\* A dictionary of lists: the run ids that are keys, and each key's list.
Dict(keys, lists) == [keys |-> keys, lists |-> lists]

\* ExecutionStreamManager.subscribe and RunLogBroker.subscribe: the key is
\* made with an empty list if it is not there, and the queue is appended.
subscribed(d, run_id, queue) ==
    Dict(d.keys \cup {run_id}, [d.lists EXCEPT ![run_id] = Append(@, queue)])

\* ExecutionStreamManager.unsubscribe: under the key, the queue is removed
\* and the key deleted if its list is empty; ValueError is passed over.
stream_unsubscribed_keep_key(d, run_id, queue) ==
    IF run_id \in d.keys /\ queue \in Members(d.lists[run_id])
    THEN Dict(d.keys, [d.lists EXCEPT ![run_id] = remove(@, queue)])
    ELSE d

stream_unsubscribed(d, run_id, queue) ==
    IF run_id \in d.keys /\ queue \in Members(d.lists[run_id])
    THEN LET list == remove(d.lists[run_id], queue)
         IN  Dict(IF list = <<>> THEN d.keys \ {run_id} ELSE d.keys,
                  [d.lists EXCEPT ![run_id] = list])
    ELSE d

\* RunLogBroker.unsubscribe: lst is the key's list, or a new empty list;
\* the subscriber is removed if it is in it; an empty lst deletes the key.
broker_unsubscribed(d, run_id, sub) ==
    LET lst == IF run_id \in d.keys THEN d.lists[run_id] ELSE <<>>
        left == IF sub \in Members(lst) THEN remove(lst, sub) ELSE lst
    IN  Dict(IF left = <<>> /\ run_id \in d.keys THEN d.keys \ {run_id} ELSE d.keys,
             IF run_id \in d.keys THEN [d.lists EXCEPT ![run_id] = left] ELSE d.lists)

\* The two dictionaries: ExecutionStreamManager._streams, RunLogBroker._subs.
Streams == Dict(bus.keys.streams, bus.streams)
BrokerSubs == Dict(bus.keys.subs, bus.subs)

\* subscribe of either class: a new queue, appended to the run id's list.
\* Queues are numbered in the order of their creation.
BusSubscribe(s, r, via) ==
    /\ s = Len(bus.sub) + 1
    /\ LET streams_ == IF via = "stream" THEN subscribed(Streams, r, s) ELSE Streams
           subs_ == IF via = "broker" THEN subscribed(BrokerSubs, r, s) ELSE BrokerSubs
       IN bus' = [bus EXCEPT
                !.sub = Append(@, [state |-> "subscribed", run |-> r, via |-> via,
                                   queue |-> <<>>, got |-> <<>>]),
                !.streams = streams_.lists,
                !.subs = subs_.lists,
                !.keys = [streams |-> streams_.keys, subs |-> subs_.keys],
                !.pub[r].live = IF via = "stream" /\ r \notin bus.keys.streams THEN FALSE ELSE @]
    /\ UNCHANGED <<sysVars, chain, runVars, term, cmd, disk, pipe>>

\* The subscription s is in the list of run id r of its class.
Registered(s, r) ==
    /\ bus.sub[s].state = "subscribed"
    /\ bus.sub[s].run = r

\* unsubscribe of either class, called with a run id and a queue: the
\* queue leaves the list, and an empty list leaves the dictionary (the
\* list a publish is walking is then no longer the dictionary's).  The
\* consumer ends with its subscription: its queue and what it had dequeued
\* are dropped, and a callback that was still on its way puts into a queue
\* nobody holds.  A call for a queue that is not in the run id's list (a
\* second unsubscribe, another run id) finds nothing to remove.
BusUnsubscribe(s, r) ==
    /\ s \in DOMAIN bus.sub
    /\ LET via == bus.sub[s].via
           streams_ == IF via = "stream" THEN stream_unsubscribed(Streams, r, s) ELSE Streams
           subs_ == IF via = "broker" THEN broker_unsubscribed(BrokerSubs, r, s) ELSE BrokerSubs
       IN bus' = [bus EXCEPT
                !.sub[s] = IF Registered(s, r)
                           THEN [@ EXCEPT !.state = "gone", !.queue = <<>>, !.got = <<>>]
                           ELSE @,
                !.streams = streams_.lists,
                !.subs = subs_.lists,
                !.keys = [streams |-> streams_.keys, subs |-> subs_.keys]]
    /\ UNCHANGED <<sysVars, chain, runVars, term, cmd, disk, pipe>>

\* The publish calls made so far, over all run ids.
RECURSIVE published_calls(_, _)
published_calls(pub, ids) ==
    IF ids = {} THEN 0
    ELSE LET r == CHOOSE x \in ids : TRUE
         IN pub[r].n + published_calls(pub, ids \ {r})

\* self._streams.get(run_id, [])
queues_of_all(streams, run_id) ==
    IF \E r \in DOMAIN streams : r # run_id /\ streams[r] # <<>>
    THEN streams[CHOOSE r \in DOMAIN streams : r # run_id /\ streams[r] # <<>>]
    ELSE streams[run_id]

queues_of(streams, run_id) == streams[run_id]

\* The list the publish of run id r is walking, as it is now.
walked(r) == IF bus.pub[r].live THEN queues_of(bus.streams, r) ELSE <<>>

\* ExecutionStreamManager.publish, up to the loop: the event is built and
\* the run id's list is looked up.
StreamPublish(r) ==
    /\ bus.pub[r].i = 0
    /\ published_calls(bus.pub, RunIds) < MaxPublish
    /\ bus' = [bus EXCEPT !.pub[r] = [n |-> @.n + 1, i |-> 1,
                                      live |-> r \in bus.keys.streams,
                                      since |-> Len(bus.sub)]]
    /\ UNCHANGED <<sysVars, chain, runVars, term, cmd, disk, pipe>>

\* One turn of the loop of ExecutionStreamManager.publish: the event is
\* put on the next queue of the list, or the list is at its end.
StreamPut(r) ==
    /\ bus.pub[r].i > 0
    /\ LET i == bus.pub[r].i
           list == walked(r)
       IN IF i <= Len(list)
          THEN bus' = [bus EXCEPT !.sub[list[i]].queue = put(@, Event(r, bus.pub[r].n)),
                                  !.pub[r].i = i + 1]
          ELSE bus' = [bus EXCEPT !.pub[r].i = 0, !.pub[r].since = 0]
    /\ UNCHANGED <<sysVars, chain, runVars, term, cmd, disk, pipe>>

RECURSIVE callbacks(_, _)
callbacks(list, message) ==
    IF list = <<>> THEN <<>>
    ELSE <<[sub |-> Head(list), message |-> message]>> \o callbacks(Tail(list), message)

\* RunLogBroker.publish: for each subscriber of a copy of the run id's
\* list, call_soon_threadsafe(queue.put_nowait, message).
BrokerPublish(r) ==
    /\ bus.pub[r].i = 0
    /\ published_calls(bus.pub, RunIds) < MaxPublish
    /\ bus' = [bus EXCEPT !.pub[r].n = @ + 1,
                          !.ready = @ \o callbacks(bus.subs[r], Event(r, bus.pub[r].n + 1))]
    /\ UNCHANGED <<sysVars, chain, runVars, term, cmd, disk, pipe>>

\* The subscribers' loop runs its oldest callback: queue.put_nowait.
LoopRuns ==
    /\ bus.ready # <<>>
    /\ LET cb == Head(bus.ready)
       IN bus' = [bus EXCEPT !.ready = Tail(@),
                             !.sub[cb.sub].queue = IF bus.sub[cb.sub].state = "gone" THEN @
                                               ELSE put(@, cb.message)]
    /\ UNCHANGED <<sysVars, chain, runVars, term, cmd, disk, pipe>>

\* A subscriber's consumer takes the oldest event of its queue.
Dequeue(s) ==
    /\ s \in DOMAIN bus.sub
    /\ bus.sub[s].state = "subscribed"
    /\ bus.sub[s].queue # <<>>
    /\ bus' = [bus EXCEPT !.sub[s].queue = Tail(@),
                          !.sub[s].got = Append(@, Head(bus.sub[s].queue))]
    /\ UNCHANGED <<sysVars, chain, runVars, term, cmd, disk, pipe>>

BusNext ==
    \/ \E s \in Subs, r \in RunIds, via \in {"stream", "broker"} : BusSubscribe(s, r, via)
    \/ \E s \in Subs, r \in RunIds : BusUnsubscribe(s, r)
    \/ \E r \in RunIds : StreamPublish(r)
    \/ \E r \in RunIds : StreamPut(r)
    \/ \E r \in RunIds : BrokerPublish(r)
    \/ LoopRuns
    \/ \E s \in Subs : Dequeue(s)

SpecBus == Init /\ [][BusNext]_vars

\* ------------------------------------------------- the playground document
\* list_playground_instances reads the document under _LOCK and
\* save_playground_instances writes it under _LOCK; save_playground_instance
\* and delete_playground_instance call the one, change the list they got,
\* and call the other.  The lock is not held in between.
Record(i, status) == [id |-> i, status |-> status]

Positions(records, instance_id) ==
    {k \in 1..Len(records) : records[k].id = instance_id}

\* save_playground_instance: the list with the record replaced at the first
\* position that has its id, or appended.
upserted(records, instance) ==
    LET at == Positions(records, instance.id)
    IN  IF at # {}
        THEN [records EXCEPT ![CHOOSE k \in at : \A j \in at : k <= j] = instance]
        ELSE Append(records, instance)

\* delete_playground_instance: the list without the records of the id.
filtered(records, instance_id) ==
    SelectSeq(records, LAMBDA r : r.id # instance_id)

\* A thread enters save_playground_instance or delete_playground_instance.
StoreCall(t, op, instance) ==
    /\ disk.thr[t].pc = "idle"
    /\ disk' = [disk EXCEPT !.thr[t] =
                   [pc |-> "called", op |-> op, arg |-> instance, instances |-> <<>>]]
    /\ UNCHANGED <<sysVars, chain, runVars, term, bus, cmd, pipe>>

\* Its call of list_playground_instances: the read, under the lock.
ListPlaygroundInstances(t) ==
    /\ disk.thr[t].pc = "called"
    /\ disk' = [disk EXCEPT !.thr[t].pc = "listed", !.thr[t].instances = disk.doc]
    /\ UNCHANGED <<sysVars, chain, runVars, term, bus, cmd, pipe>>

\* The change of its own list and its call of save_playground_instances:
\* the write, under the lock.  A delete that removed nothing writes nothing.
SavePlaygroundInstances(t) ==
    /\ disk.thr[t].pc = "listed"
    /\ LET me == disk.thr[t]
           instances_ == IF me.op = "save" THEN upserted(me.instances, me.arg)
                         ELSE filtered(me.instances, me.arg.id)
           writes == me.op = "save" \/ Len(instances_) < Len(me.instances)
       IN  disk' = [disk EXCEPT !.doc = IF writes THEN instances_ ELSE @,
                                !.thr[t].pc = "done",
                                !.thr[t].instances = <<>>]
    /\ UNCHANGED <<sysVars, chain, runVars, term, bus, cmd, pipe>>

\* Both calls have returned; the threads go on to their next calls.
StoreReturn ==
    /\ \A t \in Threads : disk.thr[t].pc = "done"
    /\ disk' = [disk EXCEPT !.thr = [t \in Threads |->
                   [pc |-> "idle", op |-> "none", arg |-> <<>>, instances |-> <<>>]]]
    /\ UNCHANGED <<sysVars, chain, runVars, term, bus, cmd, pipe>>

StoreNext ==
    \/ \E t \in Threads, i \in StoreIds, st \in StoreStatuses : StoreCall(t, "save", Record(i, st))
    \/ \E t \in Threads, i \in StoreIds : StoreCall(t, "delete", Record(i, "none"))
    \/ \E t \in Threads : ListPlaygroundInstances(t)
    \/ \E t \in Threads : SavePlaygroundInstances(t)
    \/ StoreReturn

SpecStore == Init /\ [][StoreNext]_vars

\* ================================================================ claims

\* C1 (SpecFleet).  The port triples of two different instances of the map
\* have no port in common, whatever the interleaving of creations,
\* provisioning steps, deletions, cleanups and engine moves.
C1_PortsPairwiseDisjoint ==
    \A i \in instances : \A j \in instances :
        i # j => InstPorts(inst[i]) \cap InstPorts(inst[j]) = {}

\* Two instances live at once, one provisioned, one still waiting.
C1_Witness ==
    \E i \in instances : \E j \in instances :
        i # j /\ prov[i] = "done" /\ prov[j] = "waiting"

\* C2 (Spec).  The step in which _create_container fails leaves the instance
\* in status error, a Store record of the id with status error, and the id
\* out of the map.
C2_FailedProvisioning ==
    [][\A i \in Ids :
          (prov[i] # "failed" /\ prov'[i] = "failed")
              => /\ inst'[i].status = "error"
                 /\ get_playground_instance(store', i) # <<>>
                 /\ Head(get_playground_instance(store', i)).status = "error"
                 /\ i \notin instances']_vars

\* Readiness timed out for a container that had been created.
C2_Witness ==
    \E i \in Ids :
        /\ prov[i] = "failed" /\ polls[i] = MaxPolls
        /\ inst[i].container_id # <<>>
        /\ i \notin instances
        /\ get_playground_instance(store, i) # <<>>
        /\ Head(get_playground_instance(store, i)).status = "error"

\* C3 (Spec).  No instance of the map is left in status creating without a
\* provisioning task that will move it to running or error: a failure
\* inside create_instance after the insertion included.
C3_CreatingIsBeingProvisioned ==
    \A i \in instances :
        inst[i].status = "creating" => prov[i] \in {"scheduled", "waiting"}

\* C4 (Spec).  Once the reaper has deleted an expired instance, the id is
\* in neither the map nor the Store and its container and volumes are gone.
C4_ReapedIsGone ==
    \A i \in reaped :
        /\ i \notin instances
        /\ get_playground_instance(store, i) = <<>>
        /\ container[i] = "none"
        /\ ~volumes[i]

C6_OrphanCleanup ==
    [][CleanupOrphans
          => \A i \in Ids :
                IF container[i] # "none" /\ i \notin instances
                THEN container'[i] = "none" /\ ~volumes'[i]
                ELSE /\ container'[i] = container[i]
                     /\ volumes'[i] = volumes[i]
                     /\ daemon'[i] = daemon[i]]_vars

\* The cleanup has just removed the container of an id deleted before its
\* provisioning began, and has kept the running container of a known id.
C6_Witness ==
    /\ resp = Resp("none", 200)
    /\ \E i \in instances : container[i] = "running" /\ volumes[i]
    /\ \E j \in Ids \ instances :
          /\ j \in DOMAIN store /\ prov[j] = "waiting"
          /\ container[j] = "none" /\ ~volumes[j]

\* C7 (Spec).  An instance of the map or a record of the Store whose status
\* is neither creating nor error has a container_id.
C7_ContainerIdWhenLive ==
    /\ \A i \in instances :
          inst[i].status \notin {"creating", "error"} => inst[i].container_id # <<>>
    /\ \A i \in DOMAIN store :
          store[i].status \notin {"creating", "error"} => store[i].container_id # <<>>

\* A refresh found the inner daemon not answering yet.
C7_Witness ==
    \E i \in instances :
        /\ inst[i].status = "installing"
        /\ i \in DOMAIN store /\ store[i].status = "installing"

\* C8 (SpecPorts).  The three ports create_instance picks are mutually
\* distinct, whatever ports are in use.
C8_PortsMutuallyDistinct ==
    chain.n > 0
        => /\ chain.last.ssh # chain.last.docker
           /\ chain.last.ssh # chain.last.web
           /\ chain.last.docker # chain.last.web

\* C9 (Spec).  expires_at > created_at for every instance of the map and
\* every record of the Store.
C9_ExpiresAfterCreated ==
    /\ \A i \in instances : inst[i].expires_at > inst[i].created_at
    /\ \A i \in DOMAIN store : store[i].expires_at > store[i].created_at

\* C10 (Spec).  delete, extend, refresh, command and stats answer 404 for an
\* id that is not in the map, and never 404 for an id that is.
ClientRequest(i) ==
    \/ DeleteInstance(i)
    \/ ExtendInstance(i)
    \/ RefreshInstanceStatus(i)
    \/ ExecuteCommand(i)
    \/ GetInstanceStats(i)

C10_NotFoundIsDistinct ==
    [][\A i \in Ids :
          ClientRequest(i)
              => IF i \notin instances THEN resp'.code = 404 ELSE resp'.code # 404]_vars

\* ------------------------------------------------- claims on workflow runs
\* Step k is the first step whose body raises / whose command exits non-zero.
RaisesAt(k) ==
    /\ k \in 1..Len(workflow)
    /\ run_step(workflow[k])[1] = "raised"
    /\ \A j \in 1..(k - 1) : run_step(workflow[j])[1] = "output"

NonzeroAt(k) ==
    /\ k \in 1..Len(workflow)
    /\ workflow[k] = [type |-> "command", kind |-> "nonzero"]
    /\ \A j \in 1..(k - 1) : workflow[j].kind = "ok"

\* C11: when the k-th step is a command that exits with a non-zero code (the
\* steps before it succeed), the run that run_workflow_sync saves has status
\* error and exactly k logs, logs 1..k-1 in status success, log k in status
\* error with an error detail, and no step after k is attempted.
C11_NonzeroExitFailsRun ==
    \A k \in 1..Len(workflow) :
        (returned = "result" /\ NonzeroAt(k)) =>
            /\ runs_dir # <<>>
            /\ runs_dir[1].status = "error"
            /\ Len(runs_dir[1].logs) = k
            /\ \A j \in 1..(k - 1) : runs_dir[1].logs[j].status = "success"
            /\ runs_dir[1].logs[k].status = "error"
            /\ runs_dir[1].logs[k].error # <<>>
            /\ attempted = [j \in 1..k |-> j]

\* C12: when step k raises, run_workflow_sync returns (it does not raise) a
\* result with status error that holds exactly k logs, log k in status
\* error; that result is what was saved; no step after k is ever executed.
C12_StepFailureHaltsRun ==
    \A k \in 1..Len(workflow) :
        RaisesAt(k) =>
            /\ \A j \in 1..Len(attempted) : attempted[j] <= k
            /\ returned # "none" =>
                /\ returned = "result"
                /\ result.status = "error"
                /\ Len(result.logs) = k
                /\ result.logs[k].status = "error"
                /\ \A j \in 1..(k - 1) : result.logs[j].status = "success"
                /\ runs_dir = <<result>>
                /\ attempted = [j \in 1..k |-> j]

C12_Witness ==
    /\ returned = "result"
    /\ \E k \in 1..Len(workflow) : RaisesAt(k) /\ k < Len(workflow)
    /\ result.status = "error"

\* C19: an observer that connected while the run was executing and has
\* forwarded everything on its queue after the run ended has received a log
\* event of every step the run logged.
C19_ObserverSeesEveryLog ==
    (/\ rpc = "done"
     /\ returned = "result"
     /\ observer.at \in {"progress", "log", "body", "finally", "finally_return", "finish"}
     /\ observer.pc = "live"
     /\ observer.queue = <<>>)
        => \A j \in 1..Len(result.logs) :
              \E n \in 1..Len(observer.seen) :
                  observer.seen[n].type = "log" /\ observer.seen[n].step = j

\* Rank of an event in step order: run_started first, run_finished last.
EventRank(e) ==
    IF e.type = "run_started" THEN 0
    ELSE IF e.type = "run_finished" THEN Len(workflow) + 1
    ELSE e.step

\* C20: steps are entered one after another in step order; the events
\* published for the run are in step order, run_started first and
\* run_finished after the events of the last step; the logs of the saved
\* run document are in step order.
C20_StepOrder ==
    /\ attempted = [j \in 1..Len(attempted) |-> j]
    /\ \A a, b \in 1..Len(published) :
          a < b => /\ EventRank(published[a]) <= EventRank(published[b])
                   /\ published[a].type # "run_finished"
    /\ runs_dir # <<>> =>
          \A j \in 1..Len(runs_dir[1].logs) : runs_dir[1].logs[j].step = j

C20_Witness ==
    /\ rpc = "done"
    /\ Len(attempted) >= 2
    /\ published[Len(published)].type = "run_finished"
    /\ Len(runs_dir[1].logs) >= 2

\* --------------------------------------------- claims on command execution
CommandFailures ==
    {"Error: Playground instance ID is required",
     "Error: Command cannot be empty",
     "Error: Playground instance not found",
     "Error: Playground instance is not running",
     "Error: Playground instance has no container ID",
     "Error: Could not access container",
     "Error: Container is not running",
     "Error executing command in container"}

\* C13: run_command_in_playground returns a string in every case; each
\* failure (no instance id, empty command, instance not found, status not
\* running, empty container id, container unreachable, container not
\* running, exec failure) gives the message of that failure, the first in
\* this order that applies; before the exec call no command is executed.
C13_PlaygroundCommandFailures ==
    cmd.fn = "run_command_in_playground" =>
        LET a == cmd.args[1]
            c == cmd.call[1]
            inst_ok == a.id_given /\ ~a.command_empty /\ a.instance # <<>>
            up == inst_ok /\ a.instance[1].status = "running"
                          /\ a.instance[1].container_id # <<>>
        IN  /\ c.ret \in CommandFailures \cup {"output", "output[exit_code]"}
            /\ ~a.id_given => c.ret = "Error: Playground instance ID is required"
            /\ (a.id_given /\ a.command_empty) => c.ret = "Error: Command cannot be empty"
            /\ (a.id_given /\ ~a.command_empty /\ a.instance = <<>>)
                  => c.ret = "Error: Playground instance not found"
            /\ (inst_ok /\ a.instance[1].status # "running")
                  => c.ret = "Error: Playground instance is not running"
            /\ (inst_ok /\ a.instance[1].status = "running" /\ a.instance[1].container_id = <<>>)
                  => c.ret = "Error: Playground instance has no container ID"
            /\ (up /\ a.cstate = "none") => c.ret = "Error: Could not access container"
            /\ (up /\ a.cstate = "exited") => c.ret = "Error: Container is not running"
            /\ (up /\ a.cstate = "running" /\ a.exec_raises)
                  => c.ret = "Error executing command in container"
            /\ c.ret \in CommandFailures => ~c.executed
            /\ c.executed => (up /\ a.cstate = "running" /\ ~a.exec_raises)

C13_Witness ==
    /\ cmd.fn = "run_command_in_playground"
    /\ cmd.call[1].ret = "Error: Playground instance is not running"
    /\ cmd.args[1].cstate = "running"
    /\ ~cmd.call[1].executed

\* C14: the one-shot execute runs a command only for an instance that
\* exists and whose status is running; in any other status nothing is
\* executed and last_activity stays as it is.
C14_ExecuteOnlyWhenRunning ==
    [][\A i \in Ids :
          (i \in instances /\ ExecuteCommand(i) /\ inst[i].status # "running")
              => /\ resp'.ret # "output"
                 /\ inst'[i].last_activity = inst[i].last_activity]_vars

\* C15: a command that ran in a sandbox and ended with a non-zero exit code
\* comes back as its output with the exit-code marker appended, and without
\* the marker when the exit code is 0, from execute_command as from
\* run_command_in_playground.
C15_ExitCodeMarker ==
    (cmd.fn \in {"execute_command", "run_command_in_playground"} /\ cmd.call[1].executed)
        => cmd.call[1].ret = (IF cmd.args[1].exit_code # 0 THEN "output[exit_code]" ELSE "output")

\* C16: a registered terminal session whose handler has returned is no longer
\* in active_sessions and its exec socket was closed exactly once, whatever
\* ended it.
C16_CleanupExactlyOnce ==
    term.pc \in {"ended", "failed"} => (~term.active /\ term.closes = 1)

\* C17: a registered session that got no client frame and whose sandbox end
\* of the exec socket has closed is eventually removed from active_sessions,
\* unless the client acts after all.
C17_SandboxCloseRemovesSession ==
    (term.active /\ term.channel = "eof" /\ ~term.acted)
        ~> (~term.active \/ term.acted)

C17_Witness ==
    /\ term.pc = "ended" /\ ~term.active
    /\ term.channel = "eof" /\ term.reader = "done"
    /\ term.handler = "cancelled"
    /\ ~term.acted

Increasing(events) ==
    \A j, k \in 1..Len(events) : j < k => events[j].seq < events[k].seq

\* C18: what a subscriber of a run id dequeues is in the order of the
\* publish calls made for that run id, nothing twice, and nothing that was
\* published for another run id.
C18_DeliveryOrder ==
    \A s \in DOMAIN bus.sub :
        /\ Increasing(bus.sub[s].got)
        /\ \A k \in 1..Len(bus.sub[s].got) : bus.sub[s].got[k].run = bus.sub[s].run

C18_Witness ==
    \E s, t \in DOMAIN bus.sub :
        /\ bus.sub[s].via = "stream" /\ bus.sub[t].via = "broker"
        /\ bus.sub[s].run # bus.sub[t].run
        /\ Len(bus.sub[s].got) >= 2
        /\ Len(bus.sub[t].got) >= 1

\* C21: get_instance_stats raises for an unknown id only; for a known
\* instance without a container id, with a container that is not running
\* (or not there), or whose stats call fails, it returns the record with
\* every figure zero and uptime = now - created_at.
C21_StatsNeverRaise ==
    cmd.fn = "get_instance_stats" =>
        LET a == cmd.args[1]
            ret == cmd.call[1]
        IN  /\ (ret[1] = "raised") <=> (a.instance = <<>>)
            /\ (/\ a.instance # <<>>
                /\ \/ a.instance[1].container_id = <<>>
                   \/ a.cstate # "running"
                   \/ a.stats_raises)
               => ret = <<"stats", ZeroStats(a.t - a.instance[1].created_at)>>

C21_Witness ==
    /\ cmd.fn = "get_instance_stats"
    /\ cmd.args[1].instance # <<>>
    /\ cmd.args[1].instance[1].container_id # <<>>
    /\ cmd.args[1].cstate = "none"
    /\ cmd.args[1].t > cmd.args[1].instance[1].created_at
    /\ cmd.args[1].instance[1].created_at > 0
    /\ cmd.call[1][1] = "stats"

\* C22: with a snapshot taken from a running container, a metric whose raw
\* fields are missing or malformed is reported as zero, and every other
\* metric has the figures of a well-formed snapshot.
C22_MetricsIndependent ==
    (/\ cmd.fn = "get_instance_stats"
     /\ cmd.args[1].instance # <<>>
     /\ cmd.args[1].instance[1].container_id # <<>>
     /\ cmd.args[1].cstate = "running"
     /\ ~cmd.args[1].stats_raises)
    => LET snap == cmd.args[1].snap
           got == cmd.call[1][2]
       IN  /\ cmd.call[1][1] = "stats"
           /\ got.cpu_usage = IF snap.cpu = "ok" THEN WellFormed.cpu_usage ELSE 0
           /\ got.memory_usage = IF snap.memory = "ok" THEN WellFormed.memory_usage ELSE 0
           /\ got.memory_limit = IF snap.memory = "ok" THEN WellFormed.memory_limit ELSE 0
           /\ got.network_rx = IF snap.network = "ok" THEN WellFormed.network_rx ELSE 0
           /\ got.network_tx = IF snap.network = "ok" THEN WellFormed.network_tx ELSE 0
           /\ got.containers_count = IF snap.count = "ok" THEN WellFormed.containers_count ELSE 0

\* C23: when the run's thread fails outside the step loop, a run document in
\* status error is saved, the same result is in the cache of recent runs,
\* and an error event has been published.
C23_FatalErrorRecorded ==
    rpc = "failed" =>
        /\ runs_dir # <<>> /\ runs_dir[1].status = "error"
        /\ RUNS = runs_dir
        /\ \E k \in 1..Len(published) : published[k].type = "error"

\* C24: while the readiness wait of _create_container is still going on for
\* an instance, the instance is not in status running: get, list and
\* refresh leave it in creating.
C24_RunningOnlyAfterReadiness ==
    \A i \in instances : prov[i] = "waiting" => inst[i].status # "running"

\* C25: a poll of _wait_for_container_ready that finds the container exited
\* ends the wait at once with a failure, and a poll whose probe of the inner
\* daemon succeeds ends it with success.
C25_ProberFailsFastOnExit ==
    [][\A i \in Ids :
        (prov[i] = "waiting" /\ polls[i] < MaxPolls /\ ProvisionPoll(i)) =>
            /\ container[i] = "exited" => prov'[i] = "failed"
            /\ (container[i] = "running" /\ daemon[i]) => prov'[i] = "done"]_vars

\* The status the state of instance i's container calls for.
Reconciled(i) ==
    IF container[i] = "none" THEN "error"
    ELSE IF container[i] = "exited" THEN "stopped"
    ELSE IF daemon[i] THEN "running" ELSE "installing"

\* C26: get, refresh and the load at start-up leave an instance that has a
\* container in the status its container calls for (error without the
\* container, stopped when it has exited, running or installing by the
\* probe of the inner daemon), and that status is one of the model's six.
C26_ReconciledStatus ==
    [][\A i \in Ids :
        (/\ GetInstance(i) \/ RefreshInstanceStatus(i) \/ Restart
         /\ i \in instances /\ i \in instances'
         /\ inst[i].container_id # <<>>)
        => (inst'[i].status = Reconciled(i) /\ inst'[i].status \in ValidStatus)]_vars

\* The status instance i had before a step: the one in memory, and for the
\* load at start-up the one of its Store record.
StatusBefore(i) ==
    IF restarts' # restarts
    THEN get_playground_instance(store, i)[1].status
    ELSE inst[i].status

\* C27: a step of provisioning, of a reconciliation (get, list, refresh) or
\* of the load at start-up that changes the status of an instance leaves the
\* instance's Store record with the same status.
C27_StatusChangePersisted ==
    [][\A i \in Ids :
        (/\ \/ ProvisionStart(i) \/ ProvisionPoll(i)
            \/ GetInstance(i) \/ ListInstances \/ RefreshInstanceStatus(i)
            \/ Restart
         /\ i \in instances'
         /\ inst'[i].status # StatusBefore(i))
        => /\ get_playground_instance(store', i) # <<>>
           /\ get_playground_instance(store', i)[1].status = inst'[i].status]_vars

\* C28 (SpecBackground).  An instance in status installing is moved by the
\* service itself, with no client request, to running or to error.
C28_InstallingIsWatched ==
    \A i \in Ids :
        (i \in instances /\ inst[i].status = "installing")
            ~> (i \in instances /\ inst[i].status \in {"running", "error"})

\* C29 (SpecBackground).  An exception in a pass of the reaper does not end the thread, and
\* an expired instance, skipped by a failed pass or not, is deleted by a
\* later pass (or is no longer expired).
C29_ReaperSurvivesFailedPass ==
    /\ [](reaper.state = "running")
    /\ \A i \in Ids :
        (i \in instances /\ Expired(inst[i]))
            ~> (i \notin instances \/ ~Expired(inst[i]))

C29_Witness ==
    \E i \in reaper.skipped : i \in reaped /\ i \notin instances

\* The document shows the mutation a thread has made.
Reflected(t) ==
    LET me == disk.thr[t]
    IN  IF me.op = "save"
        THEN \E k \in 1..Len(disk.doc) : disk.doc[k] = me.arg
        ELSE Positions(disk.doc, me.arg.id) = {}

\* C30 (SpecStore).  When two threads have each made a mutation of the
\* document, on different ids, at the same time, the document shows both
\* mutations, and it has no two records with one id.
C30_NoLostUpdate ==
    (/\ \A t \in Threads : disk.thr[t].pc = "done"
     /\ \A t, u \in Threads : t # u => disk.thr[t].arg.id # disk.thr[u].arg.id)
        => /\ \A t \in Threads : Reflected(t)
           /\ \A i \in StoreIds : Cardinality(Positions(disk.doc, i)) <= 1

\* The subscriptions of a class that are registered under run id r.
RegisteredUnder(via, r) ==
    {s \in DOMAIN bus.sub : bus.sub[s].via = via /\ Registered(s, r)}

Exactly(d, via) ==
    /\ \A r \in d.keys : d.lists[r] # <<>>
    /\ \A r \in RunIds :
        /\ Members(d.lists[r]) = RegisteredUnder(via, r)
        /\ Len(d.lists[r]) = Cardinality(RegisteredUnder(via, r))

\* C31 (SpecBus).  Each broker's dictionary has no run id with an empty
\* list, its lists hold exactly the subscriptions subscribed and not yet
\* unsubscribed, and an unsubscribe of a subscription that is not
\* registered under the run id given changes neither dictionary.
C31_SubscriberMap ==
    /\ [](Exactly(Streams, "stream") /\ Exactly(BrokerSubs, "broker"))
    /\ [][\A s \in Subs, r \in RunIds :
            (BusUnsubscribe(s, r) /\ ~Registered(s, r))
                => (Streams' = Streams /\ BrokerSubs' = BrokerSubs)]_vars

\* A run id has lost its last subscription, and with it its key, while
\* another subscription of the same class is still registered.
C31_Witness ==
    \E s, t \in DOMAIN bus.sub :
        /\ bus.sub[s].state = "gone" /\ bus.sub[t].state = "subscribed"
        /\ bus.sub[s].via = bus.sub[t].via
        /\ bus.sub[s].run \notin bus.keys.streams \cup bus.keys.subs

\* The publish call in progress for run id r returns at this step.
PublishReturns(r) ==
    /\ bus.pub[r].i > Len(walked(r))
    /\ StreamPut(r)

\* The queues subscribed to run id r since before the publish call in
\* progress began (queues are numbered in the order of their creation,
\* and a queue that was unsubscribed is not subscribed again).
Throughout(r) ==
    {s \in RegisteredUnder("stream", r) : s <= bus.pub[r].since}

\* C32 (SpecBus).  When a publish call of ExecutionStreamManager returns,
\* the event is in the queue of every subscriber (or was dequeued by it)
\* that was subscribed to the run id from before the call to its return,
\* whatever was unsubscribed meanwhile.
C32_PublishReachesAll ==
    [][\A r \in RunIds :
          PublishReturns(r)
              => \A s \in Throughout(r) :
                    Event(r, bus.pub[r].n)
                        \in Members(bus.sub[s].queue) \cup Members(bus.sub[s].got)]_vars

StartingUp == term.pc \in {"instance_check", "container_check", "daemon_check", "exec", "register"}

\* C33 (SpecTermFair).  A session is in active_sessions only after the
\* instance was found running, the container check passed in one of its 3
\* turns and the daemon check in one of its 5; a start-up that is refused
\* (instance missing or not running, a check exhausted) registers nothing
\* and, unless the send fails on a client that has gone, has sent an error
\* frame and closed the connection; and every start-up comes to an end.
C33_SessionOnlyAfterChecks ==
    /\ [](term.active =>
            /\ term.instance = "running"
            /\ term.container /\ term.attempt < container_attempts
            /\ term.docker_ready /\ term.docker_attempt < docker_attempts)
    /\ [](term.pc = "refused" =>
            /\ ~term.active
            /\ term.error = "raised" \/ (term.error = "sent" /\ term.closed)
            /\ term.client = "connected" => term.error = "sent")
    /\ [](term.pc \in {"daemon_check", "exec", "register"} => term.container)
    /\ [](term.pc \in {"exec", "register"} => term.docker_ready)
    /\ (StartingUp ~> ~StartingUp)

\* A session registered after each check failed as often as it may and
\* passed on its last turn.
C33_Witness ==
    /\ term.active
    /\ term.attempt = container_attempts - 1
    /\ term.docker_attempt = docker_attempts - 1

RECURSIVE FirstChunks(_)
FirstChunks(n) == IF n = 0 THEN <<>> ELSE Append(FirstChunks(n - 1), n)

\* C34 (SpecReader).  The frames sent to the client, followed by the
\* chunks still on the exec socket, are the chunks the sandbox wrote, once
\* each and in the order written: no read that timed out loses a chunk.
C34_OutputForwardedInOrder ==
    pipe.sent \o pipe.wire = FirstChunks(pipe.n)

InProgress(st) == st \in {"scheduled", "waiting"}

\* C35 (Spec).  An id that left the map while its provisioning was in
\* progress was deleted (delete_instance returned true: nothing else takes
\* an id out of the map before the provisioning ends).  When that
\* provisioning ends, there is no Store record of the id, the id is not in
\* the map and the engine has no container of the id.
C35_DeletionNotUndone ==
    [][\A i \in Ids :
          (InProgress(prov[i]) /\ i \notin instances /\ ~InProgress(prov'[i]))
              => /\ get_playground_instance(store', i) = <<>>
                 /\ i \notin instances'
                 /\ container'[i] = "none"]_vars

\* C36 (Spec).  The reaper deletes an instance only if it is expired at
\* the moment of the deletion: an extension made after the scan of the
\* pass keeps the instance.
C36_ReaperDeletesOnlyExpired ==
    [][\A i \in Ids :
          (ReaperDelete(i) /\ i \in instances) => Expired(inst[i])]_vars

\* C37 (Spec).  With no provisioning and no reaper pass in progress, every
\* id of the map has a Store record whose container_id, expires_at and
\* last_activity are those of the instance in memory.
C37_StoreMirrorsMap ==
    (reaperQueue = {} /\ \A i \in Ids : ~InProgress(prov[i]))
        => \A i \in instances :
              /\ get_playground_instance(store, i) # <<>>
              /\ LET r == Head(get_playground_instance(store, i))
                 IN  /\ r.container_id = inst[i].container_id
                     /\ r.expires_at = inst[i].expires_at
                     /\ r.last_activity = inst[i].last_activity

\* C38 (Spec).  After a start-up, the map holds exactly the ids of the
\* records the Store had whose expires_at is not in the past, the Store
\* has no record whose expires_at is in the past, and the engine has no
\* labelled container of an id that is not in the map.
C38_StartUp ==
    [][Restart
          => /\ instances' = {i \in DOMAIN store : ~Expired(store[i])}
             /\ \A i \in DOMAIN store' : ~Expired(store'[i])
             /\ \A i \in Ids : container'[i] # "none" => i \in instances']_vars

\* C39 (SpecRun).  A run that run_workflow_sync has returned was saved with
\* the status returned, that status is success or error, and finished_at
\* is set in the result and in the document saved.
C39_ReturnedRunIsSaved ==
    returned = "result"
        => /\ runs_dir # <<>>
           /\ runs_dir[1].status = result.status
           /\ result.status \in {"success", "error"}
           /\ result.finished_at # <<>>
           /\ runs_dir[1].finished_at # <<>>

====
